---- MODULE Spec2Model ----
(***************************************************************************)
(* A model of pylearn2's Space layer (pylearn2/space/__init__.py): the     *)
(* descriptors VectorSpace, Conv2DSpace, CompositeSpace and NullSpace,     *)
(* their equality and hash, validate, get_total_dimension and the format   *)
(* conversion format_as / _format_as / Conv2DSpace.convert (Spec), their   *)
(* constructors (ConstructSpec) and validate, get_origin,                  *)
(* get_origin_batch, restrict, restrict_batch and get_batch_size           *)
(* (MethodSpec); the life of one object with its attributes (LifeSpec)     *)
(* and the two conversion paths between image spaces (PathSpec).           *)
(* Further: the sequence-length iterators of sandbox/rnn/utils/iteration   *)
(* (IterSpec), get_dataless_dataset of utils/__init__.py (LoadSpec), the   *)
(* MultiplexingMatrixIterator of datasets/wiskott2.py (MuxSpec) and the    *)
(* PatchViewer of gui/patch_viewer.py (ViewSpec).                          *)
(*                                                                         *)
(* Tensors are modelled by value: a shape and the elements in row-major    *)
(* (C) order, which is the order numpy and theano reshape in.  The axis    *)
(* tags 'b', 'c', 0, 1 of the source are the strings "b", "c", "0", "1".   *)
(* Python exceptions are the status of a result record.                    *)
(***************************************************************************)
EXTENDS Integers, Sequences, FiniteSets, TLC

\* ------------------------------------------------------------------ bounds
\* largest image side (rows, cols), channel count and example count drawn
MaxSide == 2
MaxChannels == 2
MaxBatch == 2
\* largest number of components of a CompositeSpace drawn
MaxComponents == 2

\* largest dataset an iterator is built over, longest sequence length drawn,
\* and the number of next() calls made on one iterator
MaxDataset == 3
MaxLength == 2
MaxNext == 5

\* the most settings other callers have pushed on the load-data stack
MaxDepth == 3

\* the most source matrices, the most rows of one, and the largest number
\* and length of slices drawn for a MultiplexingMatrixIterator
MaxMatrices == 2
MaxRows == 3
MaxSlices == 2

\* the most rows and columns of a PatchViewer grid, and the most calls made
\* on one viewer
MaxGrid == 2
MaxPatches == 4

\* ------------------------------------------------------- sequence helpers
RECURSIVE Prod(_)
Prod(s) == IF s = <<>> THEN 1 ELSE Head(s) * Prod(Tail(s))

RECURSIVE SumSeq(_)
SumSeq(s) == IF s = <<>> THEN 0 ELSE Head(s) + SumSeq(Tail(s))

\* Python's seq.index(elem), as a 1-based position
IndexOf(s, e) == CHOOSE i \in 1..Len(s) : s[i] = e /\ \A j \in 1..(i-1) : s[j] # e

Min(a, b) == IF a < b THEN a ELSE b

Range(s) == {s[i] : i \in 1..Len(s)}

RECURSIVE Pick(_, _)
\* [f[e] for e in s]: the values of f (a sequence or a dict) at the entries of s
Pick(f, s) == IF s = <<>> THEN <<>> ELSE <<f[Head(s)]>> \o Pick(f, Tail(s))

\* ---------------------------------------------------------------- batches
\* A batch is None, a tensor (a theano variable: its run-time shape, its
\* elements in row-major order, whether it is a sparse matrix and whether it
\* carries a debug/test value that validate can inspect) or a tuple of
\* batches.  NoBatch stands for "no value" in the result of a call that raised.
Tensor(shape, data, sparse, debug) ==
    [kind |-> "tensor", shape |-> shape, data |-> data,
     sparse |-> sparse, debug |-> debug, items |-> <<>>]

TupleBatch(items) ==
    [kind |-> "tuple", shape |-> <<>>, data |-> <<>>,
     sparse |-> FALSE, debug |-> FALSE, items |-> items]

None ==
    [kind |-> "None", shape |-> <<>>, data |-> <<>>,
     sparse |-> FALSE, debug |-> FALSE, items |-> <<>>]

NoBatch ==
    [kind |-> "nothing", shape |-> <<>>, data |-> <<>>,
     sparse |-> FALSE, debug |-> FALSE, items |-> <<>>]

RECURSIVE Strides(_)
\* the strides of the axes of a row-major array of the given shape
Strides(shape) ==
    IF shape = <<>> THEN <<>> ELSE <<Prod(Tail(shape))>> \o Strides(Tail(shape))

\* the 0-based flat position of the element at 0-based coordinates idx
Ravel(idx, shape) ==
    LET stride == Strides(shape)
    IN  SumSeq([i \in 1..Len(shape) |-> idx[i] * stride[i]])

\* the element of tensor t at 0-based coordinates idx
At(t, idx) == t.data[Ravel(idx, t.shape) + 1]

\* tensor.dimshuffle(*perm) / ndarray.transpose(*perm): axis i of the result
\* is axis perm[i] of the input (perm holds 1-based positions here)
Dimshuffle(t, perm) ==
    LET r         == Len(perm)
        newshape  == Pick(t.shape, perm)
        newstride == Strides(newshape)
        oldstride == Pick(Strides(t.shape), perm)
        \* the flat position in t of the element at flat position k of the result
        old(k)    == SumSeq([i \in 1..r |->
                        (((k - 1) \div newstride[i]) % newshape[i]) * oldstride[i]]) + 1
    IN  Tensor(newshape, [k \in 1..Len(t.data) |-> t.data[old(k)]], t.sparse, t.debug)

\* tensor.reshape(shape): the same elements in the same row-major order; the
\* caller checks that the sizes agree (ReshapeFails)
Reshape(t, shape) == Tensor(shape, t.data, t.sparse, t.debug)

ReshapeFails(t, shape) == Prod(shape) # Len(t.data)

\* a mutant of the slice: every piece starts at column 0
SliceCols_first(t, pos, width) ==
    LET n == t.shape[1]
        m == t.shape[2]
        w == Min(width, m)
    IN  Tensor(<<n, w>>,
               [k \in 1..(n * w) |-> t.data[((k - 1) \div w) * m + ((k - 1) % w) + 1]],
               t.sparse, t.debug)

\* batch[:, pos:pos+width] of a 2D tensor, with Python's clamping of slices
SliceCols(t, pos, width) ==
    LET n  == t.shape[1]
        m  == t.shape[2]
        lo == Min(pos, m)
        hi == Min(pos + width, m)
        w  == hi - lo
    IN  Tensor(<<n, w>>,
               [k \in 1..(n * w) |-> t.data[((k - 1) \div w) * m + lo + ((k - 1) % w) + 1]],
               t.sparse, t.debug)

\* T.concatenate(pieces, axis=1) of 2D tensors with equal row counts
RECURSIVE ColumnOwner(_, _, _)
ColumnOwner(pieces, i, col) ==
    IF col < pieces[i].shape[2] THEN <<i, col>>
    ELSE ColumnOwner(pieces, i + 1, col - pieces[i].shape[2])

ConcatCols(pieces) ==
    LET n == pieces[1].shape[1]
        m == SumSeq([i \in 1..Len(pieces) |-> pieces[i].shape[2]])
        elem(k) == LET own == ColumnOwner(pieces, 1, (k - 1) % m)
                   IN  At(pieces[own[1]], <<(k - 1) \div m, own[2]>>)
    IN  Tensor(<<n, m>>, [k \in 1..(n * m) |-> elem(k)],
               pieces[1].sparse, \A i \in 1..Len(pieces) : pieces[i].debug)

\* T.concatenate raises on an empty list, on a piece that is not a matrix
\* and on pieces whose row counts differ
ConcatFails(pieces) ==
    \/ pieces = <<>>
    \/ \E i \in 1..Len(pieces) : pieces[i].kind # "tensor" \/ Len(pieces[i].shape) # 2
    \/ \E i \in 1..Len(pieces) : pieces[i].shape[1] # pieces[1].shape[1]

\* ------------------------------------------------------------ descriptors
\* One record shape for the four Space classes; a field a class does not
\* have holds a fixed filler.  shape_type and axes_type record whether the
\* constructor was given a Python list or a tuple: __init__ stores the
\* argument as it is (self.shape = shape, self.axes = axes).
VectorSpace(dim, sparse) ==
    [kind |-> "VectorSpace", dim |-> dim, sparse |-> sparse,
     shape |-> <<>>, shape_type |-> "tuple", num_channels |-> 0,
     axes |-> <<>>, axes_type |-> "tuple", components |-> <<>>]

Conv2DSpace(shape, shape_type, num_channels, axes, axes_type) ==
    [kind |-> "Conv2DSpace", dim |-> 0, sparse |-> FALSE,
     shape |-> shape, shape_type |-> shape_type, num_channels |-> num_channels,
     axes |-> axes, axes_type |-> axes_type, components |-> <<>>]

CompositeSpace(components) ==
    [kind |-> "CompositeSpace", dim |-> 0, sparse |-> FALSE,
     shape |-> <<>>, shape_type |-> "tuple", num_channels |-> 0,
     axes |-> <<>>, axes_type |-> "tuple", components |-> components]

NullSpace ==
    [kind |-> "NullSpace", dim |-> 0, sparse |-> FALSE,
     shape |-> <<>>, shape_type |-> "tuple", num_channels |-> 0,
     axes |-> <<>>, axes_type |-> "tuple", components |-> <<>>]

\* the default of the axes argument
DefaultAxes == <<"b", "0", "1", "c">>

\* ------------------------------------------------------------ constructors
\* The arguments of a call are Python values: None, an int, a number that is
\* not an integer (PyFloat(n) stands for n + 0.5), or a tuple / list of them.
\* A sequence argument is the record of its Python type and its entries; a
\* scalar given where a sequence is expected has the type "int".
PyNone == [type |-> "NoneType", v |-> 0]

PyInt(n) == [type |-> "int", v |-> n]

PyFloat(n) == [type |-> "float", v |-> n]

PySeq(type, v) == [type |-> type, v |-> v]

\* isinstance(x, py_integer_types)
IsInteger(x) == x.type = "int"

\* x > 0 for a number x
IsPositive(x) == IF x.type = "int" THEN x.v > 0 ELSE x.v >= 0

\* the value an attribute holds once the argument x is stored in it: a Python
\* int is the integer itself, any other value stays the tagged value
Stored(x) == IF x.type = "int" THEN x.v ELSE x

\* the filler for "no object"
NoObject ==
    [kind |-> "nothing", dim |-> 0, sparse |-> FALSE,
     shape |-> <<>>, shape_type |-> "tuple", num_channels |-> 0,
     axes |-> <<>>, axes_type |-> "tuple", components |-> <<>>]

\* the outcome of a call: status is "ok" or the exception raised, val the
\* value returned
Ok(val) == [status |-> "ok", val |-> val]

Fails(exc) == [status |-> exc, val |-> NoObject]

\* VectorSpace.__init__: self.dim = dim; self.sparse = sparse
VectorSpace_init(dim, sparse) == Ok(VectorSpace(Stored(dim), sparse))

\* a mutant of the channel-argument check: both arguments may be given
ExactlyOneChannelArg_atmostone(channels, num_channels) ==
    ~ (channels.type = "NoneType" /\ num_channels.type = "NoneType")

\* (channels is None) + (num_channels is None) == 1
ExactlyOneChannelArg(channels, num_channels) ==
    (channels.type = "NoneType") # (num_channels.type = "NoneType")

\* Conv2DSpace.__init__, check by check in the order of the code
Conv2DSpace_init(shape, channels, num_channels, axes) ==
    IF ~ ExactlyOneChannelArg(channels, num_channels) THEN Fails("AssertionError")
    ELSE LET nc == IF num_channels.type = "NoneType" THEN channels ELSE num_channels
             ax == IF axes.type = "NoneType" THEN PySeq("tuple", DefaultAxes) ELSE axes
         IN  IF ~ IsInteger(nc) THEN Fails("AssertionError")
             ELSE IF shape.type \notin {"tuple", "list"} \/ Len(shape.v) # 2
                  THEN Fails("ValueError")
             ELSE IF \E i \in 1..2 : ~ IsInteger(shape.v[i]) THEN Fails("AssertionError")
             ELSE IF \E i \in 1..2 : ~ IsPositive(shape.v[i]) THEN Fails("AssertionError")
             ELSE IF ~ IsPositive(nc) THEN Fails("AssertionError")
             ELSE IF Len(ax.v) # 4 THEN Fails("AssertionError")
             ELSE Ok(Conv2DSpace(<<shape.v[1].v, shape.v[2].v>>, shape.type,
                                 nc.v, ax.v, ax.type))

\* ------------------------------------------------------- __eq__ and __ne__
\* VectorSpace.__eq__: type(self) == type(other) and self.dim == other.dim
VectorSpace_eq(self, other) ==
    self.kind = other.kind /\ self.dim = other.dim

\* Conv2DSpace.__eq__: shape is compared as stored (a Python list never
\* equals a tuple), axes after tuple(...)
Conv2DSpace_eq(self, other) ==
    /\ self.kind = other.kind
    /\ self.shape = other.shape /\ self.shape_type = other.shape_type
    /\ self.num_channels = other.num_channels
    /\ self.axes = other.axes

NullSpace_eq(self, other) == self.kind = other.kind

RECURSIVE Space_eq(_, _)
\* CompositeSpace.__eq__: same type, same length, components pairwise ==
CompositeSpace_eq(self, other) ==
    /\ self.kind = other.kind
    /\ Len(self.components) = Len(other.components)
    /\ \A i \in 1..Len(self.components) :
           Space_eq(self.components[i], other.components[i])

\* self == other, dispatched on the class of self
Space_eq(self, other) ==
    CASE self.kind = "VectorSpace"    -> VectorSpace_eq(self, other)
      [] self.kind = "Conv2DSpace"    -> Conv2DSpace_eq(self, other)
      [] self.kind = "CompositeSpace" -> CompositeSpace_eq(self, other)
      [] OTHER                        -> NullSpace_eq(self, other)

\* Space.__ne__
Space_ne(self, other) == ~ Space_eq(self, other)

\* ----------------------------------------------------------------- __hash__
\* hash(x) is modelled by the tuple that the code hashes: equal tuples give
\* equal hashes.  raised: hash() raised TypeError (a list is unhashable).
HashOf(kind, dim, shape, num_channels, axes, components) ==
    [raised |-> FALSE, type |-> kind, dim |-> dim, shape |-> shape,
     num_channels |-> num_channels, axes |-> axes, components |-> components]

HashRaised ==
    [raised |-> TRUE, type |-> "", dim |-> 0, shape |-> <<>>,
     num_channels |-> 0, axes |-> <<>>, components |-> <<>>]

\* VectorSpace.__hash__: hash((type(self), self.dim))
VectorSpace_hash(self) == HashOf(self.kind, self.dim, <<>>, 0, <<>>, <<>>)

\* Conv2DSpace.__hash__: hash((type(self), self.shape, self.num_channels, self.axes))
Conv2DSpace_hash(self) ==
    IF self.shape_type = "list" \/ self.axes_type = "list" THEN HashRaised
    ELSE HashOf(self.kind, 0, self.shape, self.num_channels, self.axes, <<>>)

NullSpace_hash(self) == HashOf(self.kind, 0, <<>>, 0, <<>>, <<>>)

RECURSIVE Space_hash(_)
\* CompositeSpace.__hash__: hash((type(self), tuple(self.components)))
CompositeSpace_hash(self) ==
    LET hs == [i \in 1..Len(self.components) |-> Space_hash(self.components[i])]
    IN  IF \E i \in 1..Len(hs) : hs[i].raised THEN HashRaised
        ELSE HashOf(self.kind, 0, <<>>, 0, <<>>, hs)

Space_hash(self) ==
    CASE self.kind = "VectorSpace"    -> VectorSpace_hash(self)
      [] self.kind = "Conv2DSpace"    -> Conv2DSpace_hash(self)
      [] self.kind = "CompositeSpace" -> CompositeSpace_hash(self)
      [] OTHER                        -> NullSpace_hash(self)

\* ------------------------------------------------------ get_total_dimension
\* raised: the call raised NotImplementedError (Space.get_total_dimension,
\* which NullSpace does not override)
Dimension(n) == [raised |-> FALSE, value |-> n]

DimensionRaised == [raised |-> TRUE, value |-> 0]

VectorSpace_get_total_dimension(self) == Dimension(self.dim)

Conv2DSpace_get_total_dimension(self) ==
    Dimension(self.shape[1] * self.shape[2] * self.num_channels)

RECURSIVE Space_get_total_dimension(_)
\* a mutant of CompositeSpace.get_total_dimension: the first component's
\* total stands for the sum
CompositeSpace_get_total_dimension_first(self) ==
    IF self.components = <<>> THEN Dimension(0)
    ELSE Space_get_total_dimension(self.components[1])

\* CompositeSpace.get_total_dimension: the sum over the components
CompositeSpace_get_total_dimension(self) ==
    LET ds == [i \in 1..Len(self.components) |->
                   Space_get_total_dimension(self.components[i])]
    IN  IF \E i \in 1..Len(ds) : ds[i].raised THEN DimensionRaised
        ELSE Dimension(SumSeq([i \in 1..Len(ds) |-> ds[i].value]))

Space_get_total_dimension(self) ==
    CASE self.kind = "VectorSpace"    -> VectorSpace_get_total_dimension(self)
      [] self.kind = "Conv2DSpace"    -> Conv2DSpace_get_total_dimension(self)
      [] self.kind = "CompositeSpace" -> CompositeSpace_get_total_dimension(self)
      [] OTHER                        -> DimensionRaised

\* ------------------------------------------------------------------ validate
\* The value is "ok" or the name of the exception raised.
VectorSpace_validate(self, batch) ==
    IF batch.kind # "tensor" THEN "TypeError"
    ELSE IF ~ self.sparse /\ batch.sparse THEN "TypeError"
    ELSE IF self.sparse /\ ~ batch.sparse THEN "TypeError"
    ELSE IF Len(batch.shape) # 2 THEN "ValueError"
    ELSE "ok"

\* the channel and image-shape checks run on the debug values of the batch
Conv2DSpace_validate(self, batch) ==
    IF batch.kind # "tensor" THEN "TypeError"
    ELSE IF batch.sparse THEN "TypeError"
    ELSE IF Len(batch.shape) # 4 THEN "ValueError"
    ELSE IF ~ batch.debug THEN "ok"
    ELSE IF batch.shape[IndexOf(self.axes, "c")] # self.num_channels THEN "ValueError"
    ELSE IF batch.shape[IndexOf(self.axes, "0")] # self.shape[1] THEN "ValueError"
    ELSE IF batch.shape[IndexOf(self.axes, "1")] # self.shape[2] THEN "ValueError"
    ELSE "ok"

NullSpace_validate(self, batch) ==
    IF batch.kind # "None" THEN "TypeError" ELSE "ok"

RECURSIVE Space_validate(_, _)
CompositeSpace_validate(self, batch) ==
    IF batch.kind # "tuple" THEN "TypeError"
    ELSE IF Len(batch.items) # Len(self.components) THEN "ValueError"
    ELSE LET vs  == [i \in 1..Len(batch.items) |->
                        Space_validate(self.components[i], batch.items[i])]
             bad == {i \in 1..Len(vs) : vs[i] # "ok"}
         IN  IF bad = {} THEN "ok"
             ELSE vs[CHOOSE i \in bad : \A j \in bad : i <= j]

Space_validate(self, batch) ==
    CASE self.kind = "VectorSpace"    -> VectorSpace_validate(self, batch)
      [] self.kind = "Conv2DSpace"    -> Conv2DSpace_validate(self, batch)
      [] self.kind = "CompositeSpace" -> CompositeSpace_validate(self, batch)
      [] OTHER                        -> NullSpace_validate(self, batch)

\* ----------------------------------------------------------- call results
\* The result of a conversion call: status is "ok" or the exception raised;
\* val the batch returned; alias whether val is the very object passed in;
\* trace the steps run, in order; info what the exception message names.
NoInfo == [self |-> "", space |-> "", my_dimension |-> 0, other_dimension |-> 0]

Returned(val, alias, trace) ==
    [status |-> "ok", val |-> val, alias |-> alias, trace |-> trace, info |-> NoInfo]

Raised(exc, trace, info) ==
    [status |-> exc, val |-> NoBatch, alias |-> FALSE, trace |-> trace, info |-> info]

\* a call that has not been made
NotCalled ==
    [status |-> "none", val |-> NoBatch, alias |-> FALSE, trace |-> <<>>, info |-> NoInfo]

\* --------------------------------------------------------------- conversion
RECURSIVE IndexesIn(_, _)
\* [ s.index(elem) for elem in elems ]
IndexesIn(s, elems) ==
    IF elems = <<>> THEN <<>>
    ELSE <<IndexOf(s, Head(elems))>> \o IndexesIn(s, Tail(elems))

\* a plausible slip in the shuffle: the inverse permutation,
\* [ dst_axes.index(elem) for elem in src_axes ]
ConvertShuffle_inverse(src_axes, dst_axes) == IndexesIn(dst_axes, src_axes)

\* shuffle = [ src_axes.index(elem) for elem in dst_axes ]
ConvertShuffle(src_axes, dst_axes) == IndexesIn(src_axes, dst_axes)

\* a plausible slip in convert: the source taken to be in the default axes
Conv2DSpace_convert_default_src(tensor, src_axes, dst_axes) ==
    IF src_axes = dst_axes THEN Returned(tensor, TRUE, <<"convert">>)
    ELSE Returned(Dimshuffle(tensor, ConvertShuffle(DefaultAxes, dst_axes)),
                  FALSE, <<"convert", "dimshuffle">>)

\* Conv2DSpace.convert / convert_numpy: the tensor itself when the axes
\* match, else one dimshuffle / transpose
Conv2DSpace_convert(tensor, src_axes, dst_axes) ==
    IF src_axes = dst_axes THEN Returned(tensor, TRUE, <<"convert">>)
    ELSE Returned(Dimshuffle(tensor, ConvertShuffle(src_axes, dst_axes)),
                  FALSE, <<"convert", "dimshuffle">>)

\* ['b'] + [axis for axis in axes if axis != 'b']
BatchLeadingAxes(axes) == <<"b">> \o SelectSeq(axes, LAMBDA a : a # "b")

\* dims = {'b': batch.shape[0], 'c': num_channels, 0: shape[0], 1: shape[1]}
Conv2DDims(space, n) ==
    [a \in {"b", "c", "0", "1"} |->
        CASE a = "b" -> n
          [] a = "c" -> space.num_channels
          [] a = "0" -> space.shape[1]
          [] OTHER   -> space.shape[2]]

\* a plausible slip in the Conv2DSpace branch: one reshape straight into the
\* destination shape, whatever the position of the batch axis
VectorToConv2D_direct(batch, space) ==
    LET shape == Pick(Conv2DDims(space, batch.shape[1]), space.axes)
    IN  IF batch.sparse THEN Raised("AttributeError", <<"reshape">>, NoInfo)
        ELSE IF ReshapeFails(batch, shape)
        THEN Raised("ValueError", <<"reshape">>, NoInfo)
        ELSE Returned(Reshape(batch, shape), FALSE, <<"reshape">>)

\* VectorSpace._format_as, the Conv2DSpace branch: reshape in batch-leading
\* order and then permute to the destination axes; reshape directly when the
\* destination is batch-leading already
VectorToConv2D(batch, space) ==
    LET dims == Conv2DDims(space, batch.shape[1])
    IN  IF space.axes[1] # "b"
        THEN LET tmp_axes == BatchLeadingAxes(space.axes)
                 shape    == Pick(dims, tmp_axes)
             IN  IF batch.sparse THEN Raised("AttributeError", <<"reshape">>, NoInfo)
                 ELSE IF ReshapeFails(batch, shape)
                 THEN Raised("ValueError", <<"reshape">>, NoInfo)
                 ELSE Returned(Dimshuffle(Reshape(batch, shape),
                                          ConvertShuffle(tmp_axes, space.axes)),
                               FALSE, <<"reshape", "dimshuffle">>)
        ELSE LET shape == Pick(dims, space.axes)
             IN  IF batch.sparse THEN Raised("AttributeError", <<"reshape">>, NoInfo)
                 ELSE IF ReshapeFails(batch, shape)
                 THEN Raised("ValueError", <<"reshape">>, NoInfo)
                 ELSE Returned(Reshape(batch, shape), FALSE, <<"reshape">>)

\* Conv2DSpace._format_as, the VectorSpace branch: bring the batch axis to
\* the front, then flatten the other axes
Conv2DToVector(self, batch) ==
    LET lead  == self.axes[1] # "b"
        moved == IF lead
                 THEN Dimshuffle(batch, ConvertShuffle(self.axes, BatchLeadingAxes(self.axes)))
                 ELSE batch
        shape == <<moved.shape[1], Conv2DSpace_get_total_dimension(self).value>>
        steps == IF lead THEN <<"dimshuffle", "reshape">> ELSE <<"reshape">>
    IN  IF ReshapeFails(moved, shape) THEN Raised("ValueError", steps, NoInfo)
        ELSE Returned(Reshape(moved, shape), FALSE, steps)

RECURSIVE Space_format_as(_, _, _)
RECURSIVE VectorToComposite(_, _, _, _, _, _)
RECURSIVE CompositeToVector(_, _, _, _, _)

\* VectorSpace._format_as, the CompositeSpace branch (the loop from component
\* i on, with pos, the pieces and the trace so far)
VectorToComposite(batch, components, i, pos, pieces, trace) ==
    IF i > Len(components) THEN Returned(TupleBatch(pieces), FALSE, trace)
    ELSE LET component == components[i]
             width     == Space_get_total_dimension(component).value
             subtensor == SliceCols(batch, pos, width)
             formatted == Space_format_as(VectorSpace(width, FALSE), subtensor, component)
         IN  IF formatted.status # "ok"
             THEN Raised(formatted.status, trace \o formatted.trace, formatted.info)
             ELSE VectorToComposite(batch, components, i + 1, pos + width,
                                    Append(pieces, formatted.val),
                                    trace \o formatted.trace)

\* CompositeSpace._format_as, the VectorSpace branch (the loop from
\* component i on), ending in T.concatenate(pieces, axis=1)
CompositeToVector(self, batch, i, pieces, trace) ==
    IF i > Len(self.components)
    THEN IF ConcatFails(pieces)
         THEN Raised("ValueError", Append(trace, "concatenate"), NoInfo)
         ELSE Returned(ConcatCols(pieces), FALSE, Append(trace, "concatenate"))
    ELSE LET component == self.components[i]
             width     == Space_get_total_dimension(component).value
             piece     == Space_format_as(component, batch.items[i],
                                          VectorSpace(width, FALSE))
         IN  IF piece.status # "ok"
             THEN Raised(piece.status, trace \o piece.trace, piece.info)
             ELSE CompositeToVector(self, batch, i + 1, Append(pieces, piece.val),
                                    trace \o piece.trace)

\* what a _format_as with no rule for the pair raises
NoRule(self, space) ==
    Raised("NotImplementedError", <<>>,
           [self |-> self.kind, space |-> space.kind,
            my_dimension |-> 0, other_dimension |-> 0])

VectorSpace__format_as(self, batch, space) ==
    CASE space.kind = "CompositeSpace" ->
             VectorToComposite(batch, space.components, 1, 0, <<>>, <<>>)
      [] space.kind = "Conv2DSpace" -> VectorToConv2D(batch, space)
      [] OTHER -> NoRule(self, space)

Conv2DSpace__format_as(self, batch, space) ==
    IF Conv2DSpace_validate(self, batch) # "ok"
    THEN Raised(Conv2DSpace_validate(self, batch), <<>>, NoInfo)
    ELSE CASE space.kind = "VectorSpace" -> Conv2DToVector(self, batch)
           [] space.kind = "Conv2DSpace" ->
                  Conv2DSpace_convert(batch, self.axes, space.axes)
           [] OTHER -> NoRule(self, space)

CompositeSpace__format_as(self, batch, space) ==
    IF space.kind = "VectorSpace" THEN CompositeToVector(self, batch, 1, <<>>, <<>>)
    ELSE NoRule(self, space)

NullSpace__format_as(self, batch, space) ==
    IF NullSpace_validate(self, batch) # "ok"
    THEN Raised("TypeError", <<>>, NoInfo)
    ELSE IF space.kind # "NullSpace" THEN Raised("AssertionError", <<>>, NoInfo)
    ELSE Returned(None, FALSE, <<>>)

\* self._format_as(batch, space), dispatched on the class of self
Space__format_as(self, batch, space) ==
    CASE self.kind = "VectorSpace"    -> VectorSpace__format_as(self, batch, space)
      [] self.kind = "Conv2DSpace"    -> Conv2DSpace__format_as(self, batch, space)
      [] self.kind = "CompositeSpace" -> CompositeSpace__format_as(self, batch, space)
      [] OTHER                        -> NullSpace__format_as(self, batch, space)

\* a plausible slip in the comparison: only a source larger than the
\* destination is refused
DimensionsDiffer_larger(my_dimension, other_dimension) ==
    my_dimension > other_dimension

\* if my_dimension != other_dimension
DimensionsDiffer(my_dimension, other_dimension) ==
    my_dimension # other_dimension

\* Space.format_as: validate, compare the total dimensions, return the batch
\* itself for equal spaces, else dispatch to _format_as
Space_format_as(self, batch, space) ==
    LET valid == Space_validate(self, batch)
        my_dimension    == Space_get_total_dimension(self)
        other_dimension == Space_get_total_dimension(space)
    IN  IF valid # "ok" THEN Raised(valid, <<"validate">>, NoInfo)
        ELSE IF my_dimension.raised
        THEN Raised("NotImplementedError", <<"validate", "get_total_dimension">>, NoInfo)
        ELSE IF other_dimension.raised
        THEN Raised("NotImplementedError",
                    <<"validate", "get_total_dimension", "get_total_dimension">>, NoInfo)
        ELSE IF DimensionsDiffer(my_dimension.value, other_dimension.value)
        THEN Raised("ValueError",
                    <<"validate", "get_total_dimension", "get_total_dimension">>,
                    [self |-> self.kind, space |-> space.kind,
                     my_dimension |-> my_dimension.value,
                     other_dimension |-> other_dimension.value])
        ELSE IF Space_eq(self, space)
        THEN Returned(batch, TRUE,
                      <<"validate", "get_total_dimension", "get_total_dimension", "__eq__">>)
        ELSE LET r == Space__format_as(self, batch, space)
             IN  [r EXCEPT !.trace =
                      <<"validate", "get_total_dimension", "get_total_dimension",
                        "__eq__", "_format_as">> \o r.trace]

\* ------------------------------------------- origin, restrict, batch size
\* np.zeros(shape): an array of zeros; an extent that is not an integer
\* raises TypeError, a negative one ValueError, and a zero extent gives an
\* empty array
np_zeros(shape) ==
    IF \E i \in 1..Len(shape) : ~ IsInteger(shape[i]) THEN Fails("TypeError")
    ELSE IF \E i \in 1..Len(shape) : shape[i].v < 0 THEN Fails("ValueError")
    ELSE LET extents == [i \in 1..Len(shape) |-> shape[i].v]
         IN  Ok(Tensor(extents, [k \in 1..Prod(extents) |-> 0], FALSE, TRUE))

\* VectorSpace.get_origin: np.zeros((self.dim,))
VectorSpace_get_origin(self) == np_zeros(<<PyInt(self.dim)>>)

\* VectorSpace.get_origin_batch: np.zeros((n, self.dim))
VectorSpace_get_origin_batch(self, n) == np_zeros(<<n, PyInt(self.dim)>>)

\* a mutant of get_origin_batch's dims: rows and columns change places
OriginDims_swapped(self, n) ==
    [a \in {"b", "c", "0", "1"} |->
        CASE a = "b" -> n
          [] a = "c" -> PyInt(self.num_channels)
          [] a = "0" -> PyInt(self.shape[2])
          [] OTHER   -> PyInt(self.shape[1])]

\* dims = { 'b' : n, 0: self.shape[0], 1: self.shape[1], 'c' : self.num_channels }
OriginDims(self, n) ==
    [a \in {"b", "c", "0", "1"} |->
        CASE a = "b" -> n
          [] a = "c" -> PyInt(self.num_channels)
          [] a = "0" -> PyInt(self.shape[1])
          [] OTHER   -> PyInt(self.shape[2])]

\* Conv2DSpace.get_origin: the extents of the axes other than 'b', in order
Conv2DSpace_get_origin(self) ==
    np_zeros(Pick(OriginDims(self, PyNone), SelectSeq(self.axes, LAMBDA a : a # "b")))

\* Conv2DSpace.get_origin_batch
Conv2DSpace_get_origin_batch(self, n) ==
    IF ~ IsInteger(n) THEN Fails("TypeError")
    ELSE IF ~ (n.v > 0) THEN Fails("AssertionError")
    ELSE np_zeros(Pick(OriginDims(self, n), self.axes))

RECURSIVE Space_get_origin_batch(_, _)
\* CompositeSpace.get_origin_batch: the tuple of the components' batches; the
\* first component that raises ends the call
CompositeSpace_get_origin_batch(self, n) ==
    LET rs  == [i \in 1..Len(self.components) |->
                   Space_get_origin_batch(self.components[i], n)]
        bad == {i \in 1..Len(rs) : rs[i].status # "ok"}
    IN  IF bad = {} THEN Ok(TupleBatch([i \in 1..Len(rs) |-> rs[i].val]))
        ELSE Fails(rs[CHOOSE i \in bad : \A j \in bad : i <= j].status)

\* NullSpace inherits Space.get_origin_batch, which raises NotImplementedError
Space_get_origin_batch(self, n) ==
    CASE self.kind = "VectorSpace"    -> VectorSpace_get_origin_batch(self, n)
      [] self.kind = "Conv2DSpace"    -> Conv2DSpace_get_origin_batch(self, n)
      [] self.kind = "CompositeSpace" -> CompositeSpace_get_origin_batch(self, n)
      [] OTHER                        -> Fails("NotImplementedError")

\* CompositeSpace and NullSpace inherit Space.get_origin, which raises
Space_get_origin(self) ==
    CASE self.kind = "VectorSpace" -> VectorSpace_get_origin(self)
      [] self.kind = "Conv2DSpace" -> Conv2DSpace_get_origin(self)
      [] OTHER                     -> Fails("NotImplementedError")

\* seq[i] for a Python index i: 0-based, a negative i counts from the end
IndexInRange(seq, i) == i >= - Len(seq) /\ i < Len(seq)

PyItem(seq, i) == IF i >= 0 THEN seq[i + 1] ELSE seq[Len(seq) + i + 1]

\* a mutant of restrict: a subset of one index is wrapped like any other
SingleIndex_never(subset) == FALSE

\* len(subset) == 1
SingleIndex(subset) == Len(subset) = 1

\* CompositeSpace.restrict
CompositeSpace_restrict(self, subset) ==
    IF \E k \in 1..Len(subset) : ~ IndexInRange(self.components, subset[k])
    THEN Fails("IndexError")
    ELSE IF SingleIndex(subset) THEN Ok(PyItem(self.components, subset[1]))
    ELSE Ok(CompositeSpace([k \in 1..Len(subset) |-> PyItem(self.components, subset[k])]))

\* CompositeSpace.restrict_batch
CompositeSpace_restrict_batch(self, batch, subset) ==
    IF Space_validate(self, batch) # "ok" THEN Fails(Space_validate(self, batch))
    ELSE IF \E k \in 1..Len(subset) : ~ IndexInRange(batch.items, subset[k])
    THEN Fails("IndexError")
    ELSE IF SingleIndex(subset) THEN Ok(PyItem(batch.items, subset[1]))
    ELSE Ok(TupleBatch([k \in 1..Len(subset) |-> PyItem(batch.items, subset[k])]))

\* VectorSpace.get_batch_size: data.shape[0] after validate
VectorSpace_get_batch_size(self, data) ==
    IF VectorSpace_validate(self, data) # "ok" THEN Fails(VectorSpace_validate(self, data))
    ELSE Ok(data.shape[1])

\* Conv2DSpace.get_batch_size: data.shape[self.axes.index('b')] after validate
Conv2DSpace_get_batch_size(self, data) ==
    IF Conv2DSpace_validate(self, data) # "ok" THEN Fails(Conv2DSpace_validate(self, data))
    ELSE Ok(data.shape[IndexOf(self.axes, "b")])

\* NullSpace.get_batch_size: 0 after validate
NullSpace_get_batch_size(self, data) ==
    IF NullSpace_validate(self, data) # "ok" THEN Fails(NullSpace_validate(self, data))
    ELSE Ok(0)

RECURSIVE Space_get_batch_size(_, _)
RECURSIVE FirstNonZero(_, _, _)
\* the loop of CompositeSpace.get_batch_size from component i on: the first
\* batch size that is not 0 is returned, a component that raises ends the call
FirstNonZero(self, data, i) ==
    IF i > Len(self.components) THEN Ok(0)
    ELSE LET b == Space_get_batch_size(self.components[i], data.items[i])
         IN  IF b.status # "ok" THEN b
             ELSE IF b.val # 0 THEN b
             ELSE FirstNonZero(self, data, i + 1)

\* a mutant of CompositeSpace.get_batch_size: the last component's batch size
\* is returned
CompositeSpace_get_batch_size_last(self, data) ==
    IF CompositeSpace_validate(self, data) # "ok"
    THEN Fails(CompositeSpace_validate(self, data))
    ELSE IF self.components = <<>> THEN Ok(0)
    ELSE Space_get_batch_size(self.components[Len(self.components)],
                              data.items[Len(self.components)])

\* CompositeSpace.get_batch_size
CompositeSpace_get_batch_size(self, data) ==
    IF CompositeSpace_validate(self, data) # "ok"
    THEN Fails(CompositeSpace_validate(self, data))
    ELSE FirstNonZero(self, data, 1)

Space_get_batch_size(self, data) ==
    CASE self.kind = "VectorSpace"    -> VectorSpace_get_batch_size(self, data)
      [] self.kind = "Conv2DSpace"    -> Conv2DSpace_get_batch_size(self, data)
      [] self.kind = "CompositeSpace" -> CompositeSpace_get_batch_size(self, data)
      [] OTHER                        -> NullSpace_get_batch_size(self, data)

\* ----------------------------------------------- attributes and reloading
\* The operations above are functions of the attribute values.  Here the
\* descriptor is an object: the record of the attributes it has, which a
\* method may read (AttributeError when the attribute is missing) or write.

\* hasattr(obj, name)
hasattr(obj, name) == name \in DOMAIN obj

\* obj.name = value
setattr(obj, name, value) ==
    [a \in DOMAIN obj \cup {name} |-> IF a = name THEN value ELSE obj[a]]

\* A Conv2DSpace pickled by a version that called the attribute nchannels:
\* unpickling restores the saved attributes and does not run __init__, so
\* the object has nchannels and no num_channels.
ReloadedConv2DSpace(shape, nchannels, axes) ==
    [kind |-> "Conv2DSpace", dim |-> 0, sparse |-> FALSE,
     shape |-> shape, shape_type |-> "tuple", nchannels |-> nchannels,
     axes |-> axes, axes_type |-> "tuple", components |-> <<>>]

\* a read of self.num_channels raises AttributeError
MissingChannels(self) ==
    self.kind = "Conv2DSpace" /\ ~ hasattr(self, "num_channels")

\* the attribute values of the object, as the operators above take them; a
\* missing num_channels holds the filler 0, which no path that gets past the
\* AttributeError checks below reads
AttributesOf(self) ==
    IF self.kind = "Conv2DSpace"
    THEN Conv2DSpace(self.shape, self.shape_type,
                     IF hasattr(self, "num_channels") THEN self.num_channels ELSE 0,
                     self.axes, self.axes_type)
    ELSE self

\* a mutant of the patch: num_channels is set from the alias on every call
PatchChannels_always(self) ==
    setattr(self, "num_channels",
            IF hasattr(self, "nchannels") THEN self.nchannels ELSE 0)

\* Conv2DSpace.get_total_dimension, its first statement:
\* if not hasattr(self, 'num_channels'): self.num_channels = self.nchannels
PatchChannels(self) ==
    IF ~ hasattr(self, "num_channels")
    THEN setattr(self, "num_channels", self.nchannels)
    ELSE self

\* the object after self.get_total_dimension(): the only write to an
\* attribute outside the constructors
AfterTotalDimension(self) ==
    IF self.kind = "Conv2DSpace" THEN PatchChannels(self) ELSE self

\* the outcome of a method call: what it returned or raised, and the object
\* after the call
Call(outcome, obj) == [ret |-> outcome, self |-> obj]

\* the outcome of a conversion as the outcome of a call
AsOutcome(r) == IF r.status = "ok" THEN Ok(r.val) ELSE Fails(r.status)

PyBool(b) == [type |-> "bool", v |-> b]

\* self.get_total_dimension()
Obj_get_total_dimension(self) ==
    LET obj == AfterTotalDimension(self)
        d   == Space_get_total_dimension(AttributesOf(obj))
    IN  Call(IF d.raised THEN Fails("NotImplementedError") ELSE Ok(PyInt(d.value)), obj)

\* Conv2DSpace.validate reads self.num_channels for each debug value of a
\* batch that passed the type and rank checks
ValidateReadsChannels(self, batch) ==
    /\ batch.kind = "tensor" /\ ~ batch.sparse /\ Len(batch.shape) = 4
    /\ batch.debug

\* self.validate(batch)
Obj_validate(self, batch) ==
    IF MissingChannels(self) /\ ValidateReadsChannels(self, batch)
    THEN Fails("AttributeError")
    ELSE LET v == Space_validate(AttributesOf(self), batch)
         IN  IF v = "ok" THEN Ok(None) ELSE Fails(v)

\* self.get_origin()
Obj_get_origin(self) ==
    IF MissingChannels(self) THEN Fails("AttributeError")
    ELSE Space_get_origin(AttributesOf(self))

\* self.get_origin_batch(n): the checks of n come before dims is built
Obj_get_origin_batch(self, n) ==
    IF MissingChannels(self) /\ IsInteger(n) /\ n.v > 0 THEN Fails("AttributeError")
    ELSE Space_get_origin_batch(AttributesOf(self), n)

\* self.get_batch_size(batch): validate, then a shape entry
Obj_get_batch_size(self, batch) ==
    IF MissingChannels(self) /\ ValidateReadsChannels(self, batch)
    THEN Fails("AttributeError")
    ELSE LET b == Space_get_batch_size(AttributesOf(self), batch)
         IN  IF b.status = "ok" THEN Ok(PyInt(b.val)) ELSE b

\* self == other: Conv2DSpace.__eq__ reads self.num_channels once the types
\* and the shapes are equal
Obj_eq(self, other) ==
    IF /\ MissingChannels(self)
       /\ other.kind = self.kind
       /\ self.shape = other.shape /\ self.shape_type = other.shape_type
    THEN Fails("AttributeError")
    ELSE Ok(PyBool(Space_eq(AttributesOf(self), other)))

\* hash(self): the tuple is built, which reads num_channels, and then hashed
Obj_hash(self) ==
    IF MissingChannels(self) THEN Fails("AttributeError")
    ELSE LET h == Space_hash(AttributesOf(self))
         IN  IF h.raised THEN Fails("TypeError") ELSE Ok(h)

RECURSIVE Space_str(_)
\* str(self): the parts the format string is filled with, in order; a
\* CompositeSpace joins the strings of its components
Space_str(self) ==
    CASE self.kind = "VectorSpace" ->
             <<"VectorSpace", <<self.dim>>, IF self.sparse THEN ", sparse" ELSE "">>
      [] self.kind = "Conv2DSpace" ->
             <<"Conv2DSpace", self.shape, self.shape_type, self.num_channels>>
      [] self.kind = "CompositeSpace" ->
             <<"CompositeSpace",
               [i \in 1..Len(self.components) |-> Space_str(self.components[i])]>>
      [] OTHER -> <<"NullSpace">>

\* str(self)
Obj_str(self) ==
    IF MissingChannels(self) THEN Fails("AttributeError")
    ELSE Ok(Space_str(AttributesOf(self)))

\* the symbolic batch of make_theano_batch: its type, which axes are
\* broadcastable, and its test value (NoBatch when none is attached)
TheanoBatch(type, broadcastable, test_value) ==
    [type |-> type, broadcastable |-> broadcastable, test_value |-> test_value,
     items |-> <<>>]

\* rval.tag.test_value = self.get_origin_batch(n=4) unless
\* config.compute_test_value is 'off'
TestValue(self, compute_test_value) ==
    IF compute_test_value = "off" THEN Ok(NoBatch)
    ELSE Space_get_origin_batch(self, PyInt(4))

VectorSpace_make_theano_batch(self, compute_test_value) ==
    LET t == TestValue(self, compute_test_value)
    IN  IF t.status # "ok" THEN t
        ELSE Ok(TheanoBatch(IF self.sparse THEN "csr_matrix" ELSE "matrix",
                            <<FALSE, FALSE>>, t.val))

\* broadcastable[self.axes.index('c')] = (self.num_channels == 1)
Conv2DSpace_make_theano_batch(self, compute_test_value) ==
    LET t == TestValue(self, compute_test_value)
    IN  IF t.status # "ok" THEN t
        ELSE Ok(TheanoBatch("TensorType",
                            [i \in 1..4 |-> i = IndexOf(self.axes, "c")
                                            /\ self.num_channels = 1],
                            t.val))

RECURSIVE Space_make_theano_batch(_, _)
\* CompositeSpace.make_theano_batch: the tuple of the components' batches
CompositeSpace_make_theano_batch(self, compute_test_value) ==
    LET rs  == [i \in 1..Len(self.components) |->
                   Space_make_theano_batch(self.components[i], compute_test_value)]
        bad == {i \in 1..Len(rs) : rs[i].status # "ok"}
    IN  IF bad = {}
        THEN Ok([type |-> "tuple", broadcastable |-> <<>>, test_value |-> NoBatch,
                 items |-> [i \in 1..Len(rs) |-> rs[i].val]])
        ELSE Fails(rs[CHOOSE i \in bad : \A j \in bad : i <= j].status)

\* NullSpace.make_theano_batch returns None
Space_make_theano_batch(self, compute_test_value) ==
    CASE self.kind = "VectorSpace" ->
             VectorSpace_make_theano_batch(self, compute_test_value)
      [] self.kind = "Conv2DSpace" ->
             Conv2DSpace_make_theano_batch(self, compute_test_value)
      [] self.kind = "CompositeSpace" ->
             CompositeSpace_make_theano_batch(self, compute_test_value)
      [] OTHER -> Ok(TheanoBatch("NoneType", <<>>, NoBatch))

\* self.make_theano_batch()
Obj_make_theano_batch(self, compute_test_value) ==
    IF MissingChannels(self) THEN Fails("AttributeError")
    ELSE Space_make_theano_batch(AttributesOf(self), compute_test_value)

\* self.format_as(batch, space): validate reads, get_total_dimension writes
Obj_format_as(self, batch, space) ==
    LET v == Obj_validate(self, batch)
    IN  IF v.status # "ok" THEN Call(v, self)
        ELSE LET obj == AfterTotalDimension(self)
             IN  Call(AsOutcome(Space_format_as(AttributesOf(obj), batch, space)), obj)

\* Conv2DSpace.np_format_as, on a 4D array: no validate; the VectorSpace
\* branch calls self.get_total_dimension()
Conv2DSpace_np_format_as(self, batch, space) ==
    CASE space.kind = "VectorSpace" -> Conv2DToVector(self, batch)
      [] space.kind = "Conv2DSpace" -> Conv2DSpace_convert(batch, self.axes, space.axes)
      [] OTHER -> NoRule(self, space)

\* NullSpace.np_format_as: two assertions, then None
NullSpace_np_format_as(self, batch, space) ==
    IF space.kind # "NullSpace" THEN Raised("AssertionError", <<>>, NoInfo)
    ELSE IF batch.kind # "None" THEN Raised("AssertionError", <<>>, NoInfo)
    ELSE Returned(None, FALSE, <<>>)

RECURSIVE Space_np_format_as(_, _, _)
RECURSIVE CompositeToVector_np(_, _, _, _)
\* CompositeSpace.np_format_as, the VectorSpace branch (the loop over
\* zip(self.components, batch) from component i on), ending in np.concatenate
CompositeToVector_np(self, batch, i, pieces) ==
    IF i > Min(Len(self.components), Len(batch.items))
    THEN IF ConcatFails(pieces) THEN Raised("ValueError", <<"concatenate">>, NoInfo)
         ELSE Returned(ConcatCols(pieces), FALSE, <<"concatenate">>)
    ELSE LET component == self.components[i]
             width     == Space_get_total_dimension(component)
         IN  IF width.raised THEN Raised("NotImplementedError", <<>>, NoInfo)
             ELSE LET piece == Space_np_format_as(component, batch.items[i],
                                                  VectorSpace(width.value, FALSE))
                  IN  IF piece.status # "ok" THEN piece
                      ELSE CompositeToVector_np(self, batch, i + 1,
                                                Append(pieces, piece.val))

CompositeSpace_np_format_as(self, batch, space) ==
    IF space.kind = "VectorSpace" THEN CompositeToVector_np(self, batch, 1, <<>>)
    ELSE NoRule(self, space)

\* VectorSpace.np_format_as is self._format_as(batch, space)
Space_np_format_as(self, batch, space) ==
    CASE self.kind = "VectorSpace"    -> VectorSpace__format_as(self, batch, space)
      [] self.kind = "Conv2DSpace"    -> Conv2DSpace_np_format_as(self, batch, space)
      [] self.kind = "CompositeSpace" -> CompositeSpace_np_format_as(self, batch, space)
      [] OTHER                        -> NullSpace_np_format_as(self, batch, space)

\* self.np_format_as(batch, space)
Obj_np_format_as(self, batch, space) ==
    LET obj == IF self.kind = "Conv2DSpace" /\ space.kind = "VectorSpace"
               THEN AfterTotalDimension(self) ELSE self
    IN  Call(AsOutcome(Space_np_format_as(AttributesOf(obj), batch, space)), obj)

\* the descriptor a reloaded object was saved as: num_channels is the alias
SavedAs(self) ==
    IF MissingChannels(self)
    THEN Conv2DSpace(self.shape, self.shape_type, self.nchannels, self.axes, self.axes_type)
    ELSE AttributesOf(self)

\* -------------------------------------------------- the RNN subset iterators
\* sandbox/rnn/utils/iteration.py: SequentialSubsetIterator and
\* ShuffledSequentialSubsetIterator, which group the indices of a dataset of
\* sequences into batches of equal sequence length.  Indices are 0-based as
\* in the source; a Python list is a sequence, a dict a function on its keys.

\* dict[key] = value
SetItem(dict, key, value) ==
    [k \in DOMAIN dict \cup {key} |-> IF k = key THEN value ELSE dict[k]]

\* key = str(sequence_length): the key "3" is <<3>>, the key "3_0" is <<3, 0>>
KeyOf(sequence_length) == <<sequence_length>>

\* a mutant of the key a full batch is moved to: the counter is not used, a
\* later full batch of the same length takes the place of an earlier one
MovedKey_zero(key, length_addons) == Append(key, 0)

\* key + '_' + str(length_addons[key])
MovedKey(key, length_addons) == Append(key, length_addons[key])

\* a mutant of the test for a full batch: one index too late
BatchFull_late(batch_list, batch_size) == Len(batch_list) > batch_size

\* len(batches[key]) >= self._batch_size
BatchFull(batch_list, batch_size) == Len(batch_list) >= batch_size

RECURSIVE CreateBatchesFrom(_, _, _, _, _, _)
\* the loop of _create_batches from the k-th (index, sequence_length) pair on
CreateBatchesFrom(indices, sequence_lengths, k, batches, length_addons, batch_size) ==
    IF k > Len(indices) THEN batches
    ELSE LET index == indices[k]
             key   == KeyOf(sequence_lengths[k])
         IN  IF key \in DOMAIN batches
             THEN IF BatchFull(batches[key], batch_size)
                  THEN LET addons == IF key \notin DOMAIN length_addons
                                     THEN SetItem(length_addons, key, 0)
                                     ELSE length_addons
                           moved  == SetItem(batches, MovedKey(key, addons), batches[key])
                       IN  CreateBatchesFrom(indices, sequence_lengths, k + 1,
                                             SetItem(moved, key, <<index>>),
                                             SetItem(addons, key, addons[key] + 1),
                                             batch_size)
                  ELSE CreateBatchesFrom(indices, sequence_lengths, k + 1,
                                         SetItem(batches, key, Append(batches[key], index)),
                                         length_addons, batch_size)
             ELSE CreateBatchesFrom(indices, sequence_lengths, k + 1,
                                    SetItem(batches, key, <<index>>),
                                    length_addons, batch_size)

\* _create_batches: the dict of batches after the loop
CreateBatches(indices, sequence_lengths, batch_size) ==
    CreateBatchesFrom(indices, sequence_lengths, 1, <<>>, <<>>, batch_size)

\* batches.values(): the values of the dict in the order keys lists its keys
DictValues(dict, keys) == [i \in 1..Len(keys) |-> dict[keys[i]]]

\* the orders in which a dict may list its keys: Python leaves it unspecified
KeyOrders(dict) ==
    LET K == DOMAIN dict
    IN  {s \in [1..Cardinality(K) -> K] : Range(s) = K}

\* np.arange(n)
Arange(n) == [i \in 1..n |-> i - 1]

\* the outcomes of rng.shuffle(np.arange(n)): the orders of 0..n-1
Shuffles(n) == {s \in [1..n -> 0..(n - 1)] : Range(s) = 0..(n - 1)}

\* sequence_lengths[shuffled]
TakeAt(sequence_lengths, indices) ==
    [k \in 1..Len(indices) |-> sequence_lengths[indices[k] + 1]]

\* the iterator after the base class's __init__: _idx and _batch are 0
SubsetIterator(kind, dataset_size, batch_size, shuffled) ==
    [kind |-> kind, _dataset_size |-> dataset_size, _batch_size |-> batch_size,
     _shuffled |-> shuffled, _idx |-> 0, _batch |-> 0, _last |-> <<>>]

\* SequentialSubsetIterator.__init__ with a non-empty sequence_lengths; keys
\* is the order in which batches.values() lists the batches
SequentialSubsetIterator_init(dataset_size, batch_size, sequence_lengths, keys) ==
    IF Len(sequence_lengths) # dataset_size THEN Fails("AssertionError")
    ELSE LET base    == SubsetIterator("SequentialSubsetIterator",
                                       dataset_size, batch_size, <<>>)
             indices == Arange(dataset_size)
         IN  Ok([a \in DOMAIN base \cup {"_sequence_lengths", "_indices", "_batches"} |->
                   CASE a = "_sequence_lengths" -> sequence_lengths
                     [] a = "_indices" -> indices
                     [] a = "_batches" ->
                            DictValues(CreateBatches(indices, sequence_lengths, batch_size),
                                       keys)
                     [] OTHER -> base[a]])

\* ShuffledSequentialSubsetIterator.__init__ with a non-empty sequence_lengths
ShuffledSequentialSubsetIterator_init(dataset_size, batch_size, sequence_lengths, shuffled, keys) ==
    IF Len(sequence_lengths) # dataset_size THEN Fails("AssertionError")
    ELSE LET base == SubsetIterator("ShuffledSequentialSubsetIterator",
                                    dataset_size, batch_size, shuffled)
             shuffled_sequence_lengths == TakeAt(sequence_lengths, shuffled)
         IN  Ok([a \in DOMAIN base \cup {"_sequence_lengths", "_shuffled_sequence_lengths",
                                        "_batches"} |->
                   CASE a = "_sequence_lengths" -> sequence_lengths
                     [] a = "_shuffled_sequence_lengths" -> shuffled_sequence_lengths
                     [] a = "_batches" ->
                            DictValues(CreateBatches(shuffled, shuffled_sequence_lengths,
                                                     batch_size), keys)
                     [] OTHER -> base[a]])

\* next() of either class when the iterator has _sequence_lengths: the
\* outcome and the iterator after the call
SubsetIterator_next(self) ==
    IF self._batch >= Len(self._batches) THEN Call(Fails("StopIteration"), self)
    ELSE LET last == self._batches[self._batch + 1]
         IN  Call(Ok(last),
                  [self EXCEPT !._last = last,
                               !._idx = self._idx + Len(last),
                               !._batch = self._batch + 1])

\* ------------------------------------------------------ get_dataless_dataset
\* pylearn2.datasets.control keeps a stack of load-data settings; the
\* innermost setting is the one in force.
\* control.push_load_data(setting)
push_load_data(stack, setting) == Append(stack, setting)

\* control.pop_load_data()
pop_load_data(stack) == SubSeq(stack, 1, Len(stack) - 1)

\* control.get_load_data()
get_load_data(stack) == stack[Len(stack)]

\* yaml_parse.load(model.dataset_yaml_src): the dataset built under the
\* setting in force, or the exception a source that cannot be built raises
yaml_parse_load(dataset_yaml_src, stack) ==
    IF dataset_yaml_src = "broken" THEN Fails("Exception")
    ELSE Ok([src |-> dataset_yaml_src, data_loaded |-> get_load_data(stack)])

\* a mutant of the try statement: the pop follows the load instead of
\* standing in a finally clause, so it is skipped when the load raises
FinallyRuns_onreturn(outcome) == outcome.status = "ok"

\* try: ... finally: control.pop_load_data() -- the clause runs whether the
\* body returned or raised
FinallyRuns(outcome) == outcome.status = "ok" \/ outcome.status # "ok"

\* ------------------------------------------------ MultiplexingMatrixIterator
\* datasets/wiskott2.py: batches made of num_slices blocks of slice_length
\* consecutive rows, each block drawn from one of the source matrices.  A
\* source matrix is modelled by its number of rows, a row of a batch by the
\* pair <<list_idx, row>> (both 0-based) it was copied from.

\* self.max_start_idxs = [mm.shape[0] - self._slice_length for mm in self.list_features]
MaxStartIdxs(lengths, slice_length) ==
    [i \in 1..Len(lengths) |-> lengths[i] - slice_length]

\* MultiplexingMatrixIterator.__init__, check by check; lengths are the
\* leading dimensions of the feature matrices, which the target matrices
\* share, and source names the components asked for
MultiplexingMatrixIterator_init(lengths, num_slices, slice_length, num_batches, source) ==
    IF ~ (num_slices > 0) THEN Fails("AssertionError")
    ELSE IF ~ (slice_length > 0) THEN Fails("AssertionError")
    ELSE IF \E i \in 1..Len(lengths) : ~ (lengths[i] >= slice_length)
    THEN Fails("AssertionError")
    ELSE IF ~ (num_batches > 0) THEN Fails("AssertionError")
    ELSE IF lengths = <<>> THEN Fails("AssertionError")
    ELSE IF \E s \in 1..Len(source) : source[s] \notin {"features", "targets1", "targets2"}
    THEN Fails("Exception")
    ELSE Ok([kind |-> "MultiplexingMatrixIterator",
             lengths |-> lengths, n_lists |-> Len(lengths),
             _num_slices |-> num_slices, _slice_length |-> slice_length,
             _num_batches |-> num_batches, _returned_batches |-> 0,
             max_start_idxs |-> MaxStartIdxs(lengths, slice_length),
             source |-> source])

\* rng.randint(low, high) draws from [low, high) and raises ValueError when
\* low >= high
randint_raises(low, high) == low >= high

randint_values(low, high) == low..(high - 1)

\* data_source[list_idx][slice_start:(slice_start+self._slice_length)]
Block(lengths, list_idx, slice_start, slice_length) ==
    [r \in 1..(Min(slice_start + slice_length, lengths[list_idx + 1]) - slice_start) |->
        <<list_idx, slice_start + r - 1>>]

RECURSIVE FillSlices(_, _, _, _, _)
\* the loop over the slices of next() from slice ii on (ii from 0), with the
\* rows copied so far; list_idxs and slice_starts are what rng draws
FillSlices(self, ii, list_idxs, slice_starts, rows) ==
    IF ii >= self._num_slices
    THEN Ok([ss \in 1..Len(self.source) |-> [source |-> self.source[ss], rows |-> rows]])
    ELSE LET list_idx == list_idxs[ii + 1]
         IN  IF randint_raises(0, self.max_start_idxs[list_idx + 1])
             THEN Fails("ValueError")
             ELSE FillSlices(self, ii + 1, list_idxs, slice_starts,
                             rows \o Block(self.lengths, list_idx, slice_starts[ii + 1],
                                           self._slice_length))

\* MultiplexingMatrixIterator.next: the outcome and the iterator after it
MultiplexingMatrixIterator_next(self, list_idxs, slice_starts) ==
    IF self._returned_batches >= self._num_batches
    THEN Call(Fails("StopIteration"), self)
    ELSE Call(FillSlices(self, 0, list_idxs, slice_starts, <<>>),
              [self EXCEPT !._returned_batches = self._returned_batches + 1])

\* MultiplexingMatrixIterator.batch_size
MultiplexingMatrixIterator_batch_size(self) == self._slice_length * self._num_slices

\* --------------------------------------------------------------- PatchViewer
\* gui/patch_viewer.py: a grid of patches drawn into one image.  Tuples keep
\* Python's 0-based values; the image is its shape and the list of what was
\* painted over the background since the last clear(), each paint the
\* half-open ranges of rows and columns it covers.

\* PatchViewer.__init__ up to self.cur_pos = (0, 0); grid_shape and
\* patch_shape are sequences of typed numbers, pad is PyNone or a pair
PatchViewer_init(grid_shape, patch_shape, is_color, pad) ==
    IF Len(grid_shape) # 2 \/ Len(patch_shape) # 2 THEN Fails("AssertionError")
    ELSE IF \E i \in 1..2 : ~ IsInteger(grid_shape[i]) \/ ~ IsInteger(patch_shape[i])
    THEN Fails("ValueError")
    ELSE LET the_pad == IF pad = PyNone THEN <<5, 5>> ELSE pad.v
             grid == <<grid_shape[1].v, grid_shape[2].v>>
             patch == <<patch_shape[1].v, patch_shape[2].v>>
             height == the_pad[1] * (1 + grid[1]) + grid[1] * patch[1]
             width == the_pad[2] * (1 + grid[2]) + grid[2] * patch[2]
         IN  Ok([kind |-> "PatchViewer", is_color |-> is_color, pad |-> the_pad,
                 patch_shape |-> patch, grid_shape |-> grid,
                 image_shape |-> <<height, width, 3>>, image |-> <<>>,
                 cur_pos |-> <<0, 0>>])

\* PatchViewer.clear: the whole image is the background again
PatchViewer_clear(self) == [self EXCEPT !.image = <<>>, !.cur_pos = <<0, 0>>]

\* what add_patch raises before it touches the viewer, "ok" when nothing: a
\* patch is its shape, its number of channels (0 for a 2-d array) and the
\* range of its values
PatchChecks(self, patch, rescale, recenter) ==
    IF self.is_color /\ patch.channels = 0 THEN "AssertionError"
    ELSE IF self.is_color /\ patch.channels # 3 THEN "ValueError"
    ELSE IF ~ self.is_color /\ patch.channels \notin {0, 1} THEN "ValueError"
    ELSE IF recenter /\ ~ (patch.shape[1] <= self.patch_shape[1]) THEN "AssertionError"
    ELSE IF recenter /\ patch.shape[2] > self.patch_shape[2] THEN "ValueError"
    ELSE IF ~ recenter /\ patch.shape # self.patch_shape THEN "ValueError"
    ELSE IF patch.values = "nan" THEN "AssertionError"
    ELSE IF ~ rescale /\ patch.values = "large" THEN "ValueError"
    ELSE "ok"

\* rs_pad, re_pad, cs_pad, ce_pad: the margins that centre a smaller patch
CenterPads(self, patch, recenter) ==
    IF recenter
    THEN LET rs_pad == (self.patch_shape[1] - patch.shape[1]) \div 2
             cs_pad == (self.patch_shape[2] - patch.shape[2]) \div 2
         IN  [rs |-> rs_pad, re |-> self.patch_shape[1] - rs_pad - patch.shape[1],
              cs |-> cs_pad, ce |-> self.patch_shape[2] - cs_pad - patch.shape[2]]
    ELSE [rs |-> 0, re |-> 0, cs |-> 0, ce |-> 0]

\* rs and cs: the first row and column of the grid cell at cur_pos
CellStart(self) ==
    <<self.pad[1] + self.cur_pos[1] * (self.patch_shape[1] + self.pad[1]),
      self.pad[2] + self.cur_pos[2] * (self.patch_shape[2] + self.pad[2])>>

\* a[first:last] of an axis of length n keeps the indices below n
Clip(first, last, n) == <<Min(first, n), Min(last, n)>>

\* an array of n rows can be assigned to a slice of m rows
Broadcasts(n, m) == n = m \/ n = 1

RECURSIVE DrawShells(_, _, _, _, _, _)
\* the loop over the activation shells from shell on, around the rows and
\* columns the patch covers; the shells painted before an assertion fails
\* stay in the image
DrawShells(self, activation, shell, image, rows, cols) ==
    IF shell >= Len(activation) THEN [status |-> "ok", image |-> image]
    ELSE IF ~ (2 * shell + 2 < self.pad[1]) \/ ~ (2 * shell + 2 < self.pad[2])
    THEN [status |-> "AssertionError", image |-> image]
    ELSE DrawShells(self, activation, shell + 1,
                    IF activation[shell + 1] >= 0
                    THEN Append(image, [what |-> "shell",
                                        rows |-> <<rows[1] - shell - 1, rows[2] + shell + 1>>,
                                        cols |-> <<cols[1] - shell - 1, cols[2] + shell + 1>>])
                    ELSE image,
                    rows, cols)

\* a mutant of the advance of cur_pos: the last row does not wrap
NextPos_nowrap(cur_pos, grid_shape) ==
    IF cur_pos[2] + 1 = grid_shape[2] THEN <<cur_pos[1] + 1, 0>>
    ELSE <<cur_pos[1], cur_pos[2] + 1>>

\* the last lines of add_patch: one cell to the right, then the first cell
\* of the next row, then the first cell of the grid
NextPos(cur_pos, grid_shape) ==
    IF cur_pos[2] + 1 = grid_shape[2]
    THEN IF cur_pos[1] + 1 = grid_shape[1] THEN <<0, 0>> ELSE <<cur_pos[1] + 1, 0>>
    ELSE <<cur_pos[1], cur_pos[2] + 1>>

\* PatchViewer.add_patch: how the call ends, the viewer after it, and the
\* first row and column of the cell it drew into; activation is the tuple of
\* amounts, empty for None
PatchViewer_add_patch(self, patch, rescale, recenter, activation) ==
    LET checks == PatchChecks(self, patch, rescale, recenter)
        cleared == IF self.cur_pos = <<0, 0>> THEN PatchViewer_clear(self) ELSE self
        pads == CenterPads(self, patch, recenter)
        start == CellStart(cleared)
        rs == start[1]
        re == rs + self.patch_shape[1]
        cs == start[2]
        ce == cs + self.patch_shape[2]
        rows == Clip(rs + pads.rs, re - pads.re, self.image_shape[1])
        cols == Clip(cs + pads.cs, ce - pads.ce, self.image_shape[2])
        drawn == [cleared EXCEPT !.image =
                     Append(@, [what |-> "patch", rows |-> rows, cols |-> cols])]
        shells == DrawShells(self, activation, 0, drawn.image,
                             <<rs + pads.rs, re - pads.re>>, <<cs + pads.cs, ce - pads.ce>>)
        raised(exc, obj) == [ret |-> Fails(exc), self |-> obj, rs |-> 0, cs |-> 0]
    IN  IF checks # "ok" THEN raised(checks, self)
        ELSE IF ~ (cleared.cur_pos[2] <= self.grid_shape[2])
        THEN raised("AssertionError", cleared)
        ELSE IF ~ (ce <= self.image_shape[2]) THEN raised("AssertionError", cleared)
        ELSE IF ~ (ce - pads.ce <= self.image_shape[2])
        THEN raised("AssertionError", cleared)
        ELSE IF ~ Broadcasts(patch.shape[1], rows[2] - rows[1])
                \/ ~ Broadcasts(patch.shape[2], cols[2] - cols[1])
        THEN raised("ValueError", cleared)
        ELSE IF shells.status # "ok"
        THEN raised(shells.status, [drawn EXCEPT !.image = shells.image])
        ELSE [ret |-> Ok(None),
              self |-> [drawn EXCEPT !.image = shells.image,
                                     !.cur_pos = NextPos(@, self.grid_shape)],
              rs |-> rs, cs |-> cs]

\* -------------------------------------------------------------- the inputs
Sides      == 1..MaxSide
Channels   == 1..MaxChannels
BatchSizes == 1..MaxBatch
AxisTags   == {"b", "0", "1", "c"}

\* the 24 orders of the four axis tags
AxesOrders ==
    {ax \in {<<a, b, c, d>> : a \in AxisTags, b \in AxisTags,
                              c \in AxisTags, d \in AxisTags} :
        Range(ax) = AxisTags}

\* every Conv2DSpace within the bounds, shape and axes given as tuples
ImageSpaces ==
    {Conv2DSpace(<<h, w>>, "tuple", c, ax, "tuple") :
        h \in Sides, w \in Sides, c \in Channels, ax \in AxesOrders}

\* the spaces drawn as components of a CompositeSpace: dense and sparse
\* vectors, images in batch-leading and other axis orders, nested composites
\* (one of them empty)
ComponentSpaces ==
    {VectorSpace(1, FALSE), VectorSpace(2, FALSE), VectorSpace(2, TRUE),
     Conv2DSpace(<<1, 2>>, "tuple", 1, DefaultAxes, "tuple"),
     Conv2DSpace(<<2, 1>>, "tuple", 2, <<"c", "0", "1", "b">>, "tuple"),
     Conv2DSpace(<<1, 1>>, "list", 2, <<"0", "b", "c", "1">>, "list"),
     CompositeSpace(<<>>),
     CompositeSpace(<<VectorSpace(2, FALSE)>>),
     CompositeSpace(<<VectorSpace(1, FALSE),
                      Conv2DSpace(<<1, 2>>, "tuple", 1, <<"b", "c", "0", "1">>, "tuple")>>),
     CompositeSpace(<<CompositeSpace(<<VectorSpace(1, FALSE)>>), VectorSpace(1, FALSE)>>)}

RECURSIVE SeqsUpTo(_, _)
\* the sequences over S of length at most n
SeqsUpTo(S, n) ==
    IF n = 0 THEN {<<>>}
    ELSE LET shorter == SeqsUpTo(S, n - 1)
         IN  shorter \cup {Append(q, x) : q \in {r \in shorter : Len(r) = n - 1}, x \in S}

CompositeSpaces == {CompositeSpace(q) : q \in SeqsUpTo(ComponentSpaces, MaxComponents)}

\* the descriptors drawn for the error paths and the identity short-circuit
SampleSpaces ==
    ComponentSpaces \cup
    {NullSpace, CompositeSpace(<<NullSpace>>),
     CompositeSpace(<<VectorSpace(1, FALSE), VectorSpace(1, FALSE)>>),
     CompositeSpace(<<VectorSpace(2, FALSE), NullSpace>>),
     VectorSpace(3, FALSE), VectorSpace(4, FALSE),
     Conv2DSpace(<<1, 2>>, "tuple", 1, <<"b", "c", "0", "1">>, "tuple"),
     Conv2DSpace(<<2, 1>>, "tuple", 1, DefaultAxes, "tuple")}

\* the descriptors drawn for == and hash: every attribute varies, shape and
\* axes are given as lists or as tuples
ComparedSpaces ==
    {VectorSpace(d, sp) : d \in Sides, sp \in BOOLEAN} \cup
    {Conv2DSpace(<<h, 1>>, st, c, ax, at) :
        h \in Sides, st \in {"tuple", "list"}, c \in Channels,
        ax \in {DefaultAxes, <<"b", "c", "0", "1">>}, at \in {"tuple", "list"}} \cup
    {CompositeSpace(q) :
        q \in SeqsUpTo({VectorSpace(1, FALSE),
                        Conv2DSpace(<<1, 1>>, "tuple", 1, DefaultAxes, "list"),
                        NullSpace}, MaxComponents)} \cup
    {NullSpace}

\* the element values of a drawn tensor with N elements: all distinct
\* ("iota") or alternating ("parity")
Fills == {"iota", "parity"}

Fill(N, fill) == [k \in 1..N |-> IF fill = "iota" THEN k ELSE k % 2]

RECURSIVE ValidBatch(_, _, _)
\* the batch of n examples that conforms to the descriptor
ValidBatch(space, n, fill) ==
    CASE space.kind = "VectorSpace" ->
             Tensor(<<n, space.dim>>, Fill(n * space.dim, fill), space.sparse, TRUE)
      [] space.kind = "Conv2DSpace" ->
             LET dims  == Conv2DDims(space, n)
                 shape == Pick(dims, space.axes)
             IN  Tensor(shape, Fill(Prod(shape), fill), FALSE, TRUE)
      [] space.kind = "CompositeSpace" ->
             TupleBatch([i \in 1..Len(space.components) |->
                            ValidBatch(space.components[i], n, fill)])
      [] OTHER -> None

\* batches that conform to few descriptors
OddBatches ==
    {None, TupleBatch(<<>>),
     Tensor(<<2>>, <<1, 2>>, FALSE, TRUE),
     Tensor(<<1, 3>>, <<1, 2, 3>>, FALSE, TRUE),
     Tensor(<<1, 1, 1, 1>>, <<1>>, FALSE, FALSE)}

\* ---------------------------------------------------------- state machine
VARIABLES
    self,     \* the descriptor format_as is called on (the source)
    space,    \* the descriptor passed to it (the destination)
    batch,    \* the batch passed to it, NoBatch when only == and hash are called
    pc,       \* which call was made last
    out,      \* the result of self.format_as(batch, space), or of convert
    back,     \* the result of space.format_as(out.val, self)
    eq,       \* <<self == space, self != space, space == self>> once compared
    hashes,   \* <<hash(self), hash(space)>> once hashed
    args,     \* the other arguments of a constructor or method call
    ret,      \* the outcome of that call
    history,  \* what the calls on an iterator or a viewer have produced so far
    load_data \* pylearn2.datasets.control.load_data, the stack of settings

vars == <<self, space, batch, pc, out, back, eq, hashes, args, ret, history, load_data>>

\* an argument that is not part of the call
Absent == [type |-> "absent", v |-> 0]

NoArgs ==
    [ctor |-> "", dim |-> Absent, sparse |-> FALSE, shape |-> Absent,
     channels |-> Absent, num_channels |-> Absent, axes |-> Absent,
     n |-> Absent, subset |-> Absent]

\* no call made yet
NotReturned == [status |-> "none", val |-> NoObject]

\* the vector space of the same total dimension as the image space S
FlatSpaceOf(S) == VectorSpace(Space_get_total_dimension(S).value, FALSE)

\* The calls drawn:
\*  - an image and the vector of the same total dimension, both directions;
\*  - two images of the same shape and channels, any two axis orders;
\*  - a vector and a composite of the same total dimension;
\*  - any two sample descriptors with a conforming or an odd batch;
\*  - any two compared descriptors, for == and hash alone.
Init ==
    /\ \/ \E S \in ImageSpaces, n \in BatchSizes, f \in Fills :
             /\ self = S
             /\ space = FlatSpaceOf(S)
             /\ batch = ValidBatch(S, n, f)
       \/ \E S \in ImageSpaces, n \in BatchSizes, f \in Fills :
             /\ self = FlatSpaceOf(S)
             /\ space = S
             /\ batch = ValidBatch(FlatSpaceOf(S), n, f)
       \/ \E S \in ImageSpaces, ax \in AxesOrders, n \in BatchSizes :
             /\ self = S
             /\ space = Conv2DSpace(S.shape, "tuple", S.num_channels, ax, "tuple")
             /\ batch = ValidBatch(S, n, "iota")
       \/ \E C \in CompositeSpaces, n \in BatchSizes, f \in Fills :
             /\ self = FlatSpaceOf(C)
             /\ space = C
             /\ batch = ValidBatch(FlatSpaceOf(C), n, f)
       \/ \E a \in SampleSpaces, b \in SampleSpaces :
             /\ self = a
             /\ space = b
             /\ batch \in {ValidBatch(a, n, "iota") : n \in BatchSizes} \cup OddBatches
       \/ \E a \in ComparedSpaces, b \in ComparedSpaces :
             /\ self = a
             /\ space = b
             /\ batch = NoBatch
    /\ pc = "start"
    /\ out = NotCalled
    /\ back = NotCalled
    /\ eq = <<>>
    /\ hashes = <<>>
    /\ args = NoArgs
    /\ ret = NotReturned
    /\ history = <<>>
    /\ load_data = <<TRUE>>

\* out = self.format_as(batch, space)
FormatAs ==
    /\ pc = "start"
    /\ batch # NoBatch
    /\ out' = Space_format_as(self, batch, space)
    /\ pc' = "formatted"
    /\ UNCHANGED <<history, load_data, self, space, batch, back, eq, hashes, args, ret>>

\* back = space.format_as(out, self), the conversion back
FormatBack ==
    /\ pc = "formatted"
    /\ out.status = "ok"
    /\ back' = Space_format_as(space, out.val, self)
    /\ pc' = "returned"
    /\ UNCHANGED <<history, load_data, self, space, batch, out, eq, hashes, args, ret>>

\* out = Conv2DSpace.convert(batch, self.axes, space.axes), the static method
\* called on a 4D tensor
Convert ==
    /\ pc = "start"
    /\ self.kind = "Conv2DSpace" /\ space.kind = "Conv2DSpace"
    /\ batch.kind = "tensor" /\ Len(batch.shape) = 4
    /\ out' = Conv2DSpace_convert(batch, self.axes, space.axes)
    /\ pc' = "converted"
    /\ UNCHANGED <<history, load_data, self, space, batch, back, eq, hashes, args, ret>>

\* self == space, self != space and space == self
Compare ==
    /\ pc = "start"
    /\ batch = NoBatch
    /\ eq' = <<Space_eq(self, space), Space_ne(self, space), Space_eq(space, self)>>
    /\ pc' = "compared"
    /\ UNCHANGED <<history, load_data, self, space, batch, out, back, hashes, args, ret>>

\* hash(self) and hash(space)
Hash ==
    /\ pc = "start"
    /\ batch = NoBatch
    /\ hashes' = <<Space_hash(self), Space_hash(space)>>
    /\ pc' = "hashed"
    /\ UNCHANGED <<history, load_data, self, space, batch, out, back, eq, args, ret>>

Next == FormatAs \/ FormatBack \/ Convert \/ Compare \/ Hash

Spec == Init /\ [][Next]_vars

\* ------------------------------------------------------------ construction
\* The constructor calls drawn.  Numbers: the ints from -1 up and three
\* numbers that are not integers (-0.5, 0.5, 1.5).
DrawnNumbers ==
    {PyInt(k) : k \in (-1)..MaxSide} \cup {PyFloat(k) : k \in (-1)..1}

\* channel arguments: omitted, an int from 0 up, or 1.5
DrawnChannels ==
    {PyNone} \cup {PyInt(k) : k \in 0..MaxChannels} \cup {PyFloat(1)}

\* shape arguments: pairs of positive ints as tuple or list, pairs with an
\* entry that is zero, negative or not an integer, sequences of another
\* length, and a bare int
DrawnShapes ==
    {PySeq(t, <<PyInt(h), PyInt(w)>>) : t \in {"tuple", "list"}, h \in Sides, w \in Sides} \cup
    {PySeq("tuple", <<PyInt(0), PyInt(1)>>), PySeq("tuple", <<PyInt(1), PyInt(-1)>>),
     PySeq("tuple", <<PyFloat(1), PyInt(1)>>), PySeq("tuple", <<PyInt(1)>>),
     PySeq("list", <<PyInt(1), PyInt(1), PyInt(1)>>), PyInt(2)}

\* axes arguments: omitted, orders of the four tags as tuple or list, a
\* repeated tag, a foreign tag, and sequences of length 3 and 5
DrawnAxes ==
    {PyNone} \cup
    {PySeq(t, ax) : t \in {"tuple", "list"},
                    ax \in {DefaultAxes, <<"b", "c", "0", "1">>, <<"c", "0", "1", "b">>}} \cup
    {PySeq("tuple", <<"b", "b", "0", "1">>), PySeq("tuple", <<"b", "0", "1", "x">>),
     PySeq("list", <<"c", "c", "c", "c">>),
     PySeq("tuple", <<"b", "0", "1">>), PySeq("tuple", <<"b", "0", "1", "c", "c">>)}

ConstructInit ==
    /\ \/ \E d \in DrawnNumbers, sp \in BOOLEAN :
             args = [NoArgs EXCEPT !.ctor = "VectorSpace", !.dim = d, !.sparse = sp]
       \/ \E sh \in DrawnShapes, ch \in DrawnChannels, nc \in DrawnChannels,
             ax \in DrawnAxes :
             args = [NoArgs EXCEPT !.ctor = "Conv2DSpace", !.shape = sh,
                                   !.channels = ch, !.num_channels = nc, !.axes = ax]
    /\ self = NoObject
    /\ space = NoObject
    /\ batch = NoBatch
    /\ pc = "args"
    /\ out = NotCalled
    /\ back = NotCalled
    /\ eq = <<>>
    /\ hashes = <<>>
    /\ ret = NotReturned
    /\ history = <<>>
    /\ load_data = <<TRUE>>

\* ret = VectorSpace(dim, sparse)
NewVectorSpace ==
    /\ pc = "args"
    /\ args.ctor = "VectorSpace"
    /\ ret' = VectorSpace_init(args.dim, args.sparse)
    /\ pc' = "constructed"
    /\ UNCHANGED <<history, load_data, self, space, batch, out, back, eq, hashes, args>>

\* ret = Conv2DSpace(shape, channels, num_channels, axes)
NewConv2DSpace ==
    /\ pc = "args"
    /\ args.ctor = "Conv2DSpace"
    /\ ret' = Conv2DSpace_init(args.shape, args.channels, args.num_channels, args.axes)
    /\ pc' = "constructed"
    /\ UNCHANGED <<history, load_data, self, space, batch, out, back, eq, hashes, args>>

ConstructNext == NewVectorSpace \/ NewConv2DSpace

ConstructSpec == ConstructInit /\ [][ConstructNext]_vars

\* ------------------------------------------------------------ method calls
\* The calls of validate, get_total_dimension, get_origin, get_origin_batch,
\* restrict, restrict_batch and get_batch_size drawn.
VectorSpaces == {VectorSpace(d, sp) : d \in Sides, sp \in BOOLEAN}

\* matrices of 1..MaxBatch rows and 1..MaxSide+1 columns, dense or sparse,
\* with or without a debug value
DrawnMatrices ==
    {Tensor(<<n, m>>, Fill(n * m, "iota"), sp, dbg) :
        n \in BatchSizes, m \in 1..(MaxSide + 1), sp \in BOOLEAN, dbg \in BOOLEAN}

\* 4D tensors of every shape within the bounds, with or without a debug value
DrawnImages ==
    {Tensor(<<a, b, c, d>>, Fill(a * b * c * d, "iota"), FALSE, dbg) :
        a \in Sides, b \in Sides, c \in Sides, d \in Sides, dbg \in BOOLEAN}

\* batches that are not a matrix and not a 4D tensor
OtherBatches ==
    {None, TupleBatch(<<>>),
     Tensor(<<2>>, <<1, 2>>, FALSE, TRUE),
     Tensor(<<1, 2, 1>>, <<1, 2>>, FALSE, TRUE),
     Tensor(<<1, 2, 1>>, <<1, 2>>, FALSE, FALSE),
     Tensor(<<1, 1, 1, 1, 2>>, <<1, 2>>, FALSE, TRUE)}

\* the n of get_origin_batch(n): ints from -1 up, 0.5 and 1.5, None
DrawnCounts ==
    {PyInt(k) : k \in (-1)..MaxBatch} \cup {PyFloat(0), PyFloat(1), PyNone}

\* composites whose origin batch is asked for
OriginComposites ==
    {CompositeSpace(<<>>),
     CompositeSpace(<<VectorSpace(2, FALSE)>>),
     CompositeSpace(<<VectorSpace(1, FALSE),
                      Conv2DSpace(<<1, 2>>, "tuple", 2, <<"c", "0", "1", "b">>, "tuple")>>),
     CompositeSpace(<<Conv2DSpace(<<2, 1>>, "tuple", 1, DefaultAxes, "tuple"),
                      CompositeSpace(<<VectorSpace(2, FALSE)>>)>>),
     CompositeSpace(<<VectorSpace(1, FALSE), NullSpace>>)}

\* the descriptors whose total dimension is asked for
DimensionSpaces ==
    ImageSpaces \cup CompositeSpaces \cup SampleSpaces \cup
    {CompositeSpace(<<VectorSpace(2, FALSE), VectorSpace(3, FALSE)>>)}

\* longest subset passed to restrict
MaxSubset == 3

\* the components restrict picks from
RestrictComponents ==
    <<VectorSpace(1, FALSE), VectorSpace(2, FALSE),
      Conv2DSpace(<<1, 2>>, "tuple", 1, DefaultAxes, "tuple"),
      CompositeSpace(<<VectorSpace(1, FALSE)>>)>>

\* composites of 0 to MaxComponents+1 of them, and one with a repeated component
RestrictedSpaces ==
    {CompositeSpace(SubSeq(RestrictComponents, 1, k)) :
        k \in 0..Min(MaxComponents + 1, Len(RestrictComponents))} \cup
    {CompositeSpace(<<VectorSpace(2, FALSE), VectorSpace(1, FALSE), VectorSpace(2, FALSE)>>)}

\* subsets: tuples and lists of at most MaxSubset indices, negative and
\* out-of-range indices included
DrawnSubsets ==
    {PySeq(t, q) : t \in {"tuple", "list"},
                   q \in SeqsUpTo((-1)..(MaxComponents + 1), MaxSubset)}

\* the components of the composites whose batch size is asked for
SizedComponents ==
    {VectorSpace(1, FALSE), VectorSpace(2, TRUE),
     Conv2DSpace(<<1, 1>>, "tuple", 1, <<"c", "0", "1", "b">>, "tuple"),
     NullSpace, CompositeSpace(<<>>), CompositeSpace(<<NullSpace>>),
     CompositeSpace(<<NullSpace, VectorSpace(1, FALSE)>>)}

SizedSpaces == {CompositeSpace(q) : q \in SeqsUpTo(SizedComponents, MaxComponents)}

\* the data of composite C whose component i holds ns[i] examples
SizedData(C, ns) ==
    TupleBatch([i \in 1..Len(C.components) |-> ValidBatch(C.components[i], ns[i], "iota")])

MethodInit ==
    /\ \/ \E S \in VectorSpaces, x \in DrawnMatrices \cup OtherBatches :
             self = S /\ batch = x /\ args = NoArgs
       \/ \E S \in ImageSpaces, x \in DrawnImages \cup OtherBatches :
             self = S /\ batch = x /\ args = NoArgs
       \/ \E S \in DimensionSpaces :
             self = S /\ batch = NoBatch /\ args = NoArgs
       \/ \E S \in ImageSpaces \cup VectorSpaces \cup OriginComposites, n \in DrawnCounts :
             self = S /\ batch = NoBatch /\ args = [NoArgs EXCEPT !.n = n]
       \/ \E S \in RestrictedSpaces, q \in DrawnSubsets :
             /\ self = S
             /\ batch \in {ValidBatch(S, 1, "iota"), TupleBatch(<<>>)}
             /\ args = [NoArgs EXCEPT !.subset = q]
       \/ \E C \in SizedSpaces :
             /\ self = C
             /\ batch \in {SizedData(C, ns) : ns \in [1..Len(C.components) -> 0..MaxBatch]}
                          \cup {None}
             /\ args = NoArgs
    /\ space = NoObject
    /\ pc = "ready"
    /\ out = NotCalled
    /\ back = NotCalled
    /\ eq = <<>>
    /\ hashes = <<>>
    /\ ret = NotReturned
    /\ history = <<>>
    /\ load_data = <<TRUE>>

\* self.validate(batch)
Validate ==
    /\ pc = "ready"
    /\ batch # NoBatch
    /\ ret' = IF Space_validate(self, batch) = "ok" THEN Ok(None)
              ELSE Fails(Space_validate(self, batch))
    /\ pc' = "validated"
    /\ UNCHANGED <<history, load_data, self, space, batch, out, back, eq, hashes, args>>

\* self.get_total_dimension()
GetTotalDimension ==
    /\ pc = "ready"
    /\ ret' = IF Space_get_total_dimension(self).raised THEN Fails("NotImplementedError")
              ELSE Ok(Space_get_total_dimension(self).value)
    /\ pc' = "dimension"
    /\ UNCHANGED <<history, load_data, self, space, batch, out, back, eq, hashes, args>>

\* self.get_origin()
GetOrigin ==
    /\ pc = "ready"
    /\ ret' = Space_get_origin(self)
    /\ pc' = "origin"
    /\ UNCHANGED <<history, load_data, self, space, batch, out, back, eq, hashes, args>>

\* self.get_origin_batch(n)
GetOriginBatch ==
    /\ pc = "ready"
    /\ args.n # Absent
    /\ ret' = Space_get_origin_batch(self, args.n)
    /\ pc' = "origin_batch"
    /\ UNCHANGED <<history, load_data, self, space, batch, out, back, eq, hashes, args>>

\* self.restrict(subset)
Restrict ==
    /\ pc = "ready"
    /\ args.subset # Absent
    /\ ret' = CompositeSpace_restrict(self, args.subset.v)
    /\ pc' = "restricted"
    /\ UNCHANGED <<history, load_data, self, space, batch, out, back, eq, hashes, args>>

\* self.restrict_batch(batch, subset)
RestrictBatch ==
    /\ pc = "ready"
    /\ args.subset # Absent
    /\ ret' = CompositeSpace_restrict_batch(self, batch, args.subset.v)
    /\ pc' = "restricted_batch"
    /\ UNCHANGED <<history, load_data, self, space, batch, out, back, eq, hashes, args>>

\* self.get_batch_size(batch)
GetBatchSize ==
    /\ pc = "ready"
    /\ batch # NoBatch
    /\ ret' = Space_get_batch_size(self, batch)
    /\ pc' = "batch_size"
    /\ UNCHANGED <<history, load_data, self, space, batch, out, back, eq, hashes, args>>

MethodNext ==
    \/ Validate
    \/ GetTotalDimension
    \/ GetOrigin
    \/ GetOriginBatch
    \/ Restrict
    \/ RestrictBatch
    \/ GetBatchSize

MethodSpec == MethodInit /\ [][MethodNext]_vars

\* ------------------------------------------------------ iterating in batches
\* An iterator is built over dataset_size sequences with the drawn lengths
\* and batch size, and next() is called until it has raised StopIteration
\* and after.
IterInit ==
    /\ \E kind \in {"SequentialSubsetIterator", "ShuffledSequentialSubsetIterator"},
          dataset_size \in 1..MaxDataset, batch_size \in 1..MaxBatch,
          sequence_lengths \in SeqsUpTo(1..MaxLength, MaxDataset) \ {<<>>} :
          args = [ctor |-> kind, dataset_size |-> dataset_size,
                  batch_size |-> batch_size, sequence_lengths |-> sequence_lengths]
    /\ self = NoObject
    /\ space = NoObject
    /\ batch = NoBatch
    /\ pc = "args"
    /\ out = NotCalled
    /\ back = NotCalled
    /\ eq = <<>>
    /\ hashes = <<>>
    /\ ret = NotReturned
    /\ history = <<>>
    /\ load_data = <<TRUE>>

\* the keys of the dict _create_batches builds for these lengths and indices
BatchKeys(indices, sequence_lengths, batch_size) ==
    IF Len(sequence_lengths) # Len(indices) THEN {<<>>}
    ELSE KeyOrders(CreateBatches(indices, sequence_lengths, batch_size))

\* self = SequentialSubsetIterator(dataset_size, batch_size, None,
\*                                 sequence_lengths=sequence_lengths)
NewSequentialSubsetIterator ==
    /\ pc = "args"
    /\ args.ctor = "SequentialSubsetIterator"
    /\ \E keys \in BatchKeys(Arange(args.dataset_size), args.sequence_lengths,
                            args.batch_size) :
          LET made == SequentialSubsetIterator_init(args.dataset_size, args.batch_size,
                                                    args.sequence_lengths, keys)
          IN  /\ self' = made.val
              /\ ret' = IF made.status = "ok" THEN Ok(None) ELSE made
              /\ pc' = IF made.status = "ok" THEN "iterating" ELSE "failed"
    /\ UNCHANGED <<space, batch, out, back, eq, hashes, args, history, load_data>>

\* self = ShuffledSequentialSubsetIterator(dataset_size, batch_size, None, rng,
\*                                         sequence_lengths=sequence_lengths)
NewShuffledSequentialSubsetIterator ==
    /\ pc = "args"
    /\ args.ctor = "ShuffledSequentialSubsetIterator"
    /\ \E shuffled \in Shuffles(args.dataset_size) :
          \E keys \in BatchKeys(shuffled,
                                IF Len(args.sequence_lengths) = args.dataset_size
                                THEN TakeAt(args.sequence_lengths, shuffled) ELSE <<>>,
                                args.batch_size) :
             LET made == ShuffledSequentialSubsetIterator_init(
                             args.dataset_size, args.batch_size,
                             args.sequence_lengths, shuffled, keys)
             IN  /\ self' = made.val
                 /\ ret' = IF made.status = "ok" THEN Ok(None) ELSE made
                 /\ pc' = IF made.status = "ok" THEN "iterating" ELSE "failed"
    /\ UNCHANGED <<space, batch, out, back, eq, hashes, args, history, load_data>>

\* SequentialSubsetIterator.next(); history lists the outcome of every call
SequentialNext ==
    /\ pc = "iterating"
    /\ self.kind = "SequentialSubsetIterator"
    /\ Len(history) < MaxNext
    /\ LET call == SubsetIterator_next(self)
       IN  /\ self' = call.self
           /\ ret' = call.ret
           /\ history' = Append(history, call.ret)
    /\ UNCHANGED <<space, batch, pc, out, back, eq, hashes, args, load_data>>

\* ShuffledSequentialSubsetIterator.next()
ShuffledNext ==
    /\ pc = "iterating"
    /\ self.kind = "ShuffledSequentialSubsetIterator"
    /\ Len(history) < MaxNext
    /\ LET call == SubsetIterator_next(self)
       IN  /\ self' = call.self
           /\ ret' = call.ret
           /\ history' = Append(history, call.ret)
    /\ UNCHANGED <<space, batch, pc, out, back, eq, hashes, args, load_data>>

IterNext ==
    \/ NewSequentialSubsetIterator
    \/ NewShuffledSequentialSubsetIterator
    \/ SequentialNext
    \/ ShuffledNext

IterSpec == IterInit /\ [][IterNext]_vars

\* -------------------------------------------------- loading without the data
\* One call of get_dataless_dataset(model), statement by statement.  self is
\* the module pylearn2.utils with its globals yaml_parse and control (None
\* until imported); args holds model.dataset_yaml_src and the stack as it was
\* when the call was made; history lists the calls made on control.
LoadInit ==
    /\ \E y \in {"None", "module"}, c \in {"None", "module"} :
          self = [kind |-> "module", yaml_parse |-> y, control |-> c]
    /\ \E src \in {"dataset", "dataset with arguments", "broken"},
          above \in SeqsUpTo(BOOLEAN, MaxDepth) :
          /\ load_data = <<TRUE>> \o above
          /\ args = [ctor |-> "get_dataless_dataset", dataset_yaml_src |-> src,
                     load_data |-> <<TRUE>> \o above]
    /\ space = NoObject
    /\ batch = NoBatch
    /\ pc = "called"
    /\ out = NotCalled
    /\ back = NotCalled
    /\ eq = <<>>
    /\ hashes = <<>>
    /\ ret = NotReturned
    /\ history = <<>>

\* if yaml_parse is None: from pylearn2.config import yaml_parse
\* if control is None: from pylearn2.datasets import control
\* (an import that fails raises out of the call)
ImportGlobals ==
    /\ pc = "called"
    /\ \/ /\ self' = [self EXCEPT !.yaml_parse = "module", !.control = "module"]
          /\ pc' = "imported"
          /\ ret' = ret
       \/ /\ self.yaml_parse = "None" \/ self.control = "None"
          /\ self' = self
          /\ pc' = "done"
          /\ ret' = Fails("ImportError")
    /\ UNCHANGED <<space, batch, out, back, eq, hashes, args, history, load_data>>

\* control.push_load_data(False)
PushLoadData ==
    /\ pc = "imported"
    /\ load_data' = push_load_data(load_data, FALSE)
    /\ history' = Append(history, "push_load_data")
    /\ pc' = "try"
    /\ UNCHANGED <<self, space, batch, out, back, eq, hashes, args, ret>>

\* rval = yaml_parse.load(model.dataset_yaml_src)
YamlLoad ==
    /\ pc = "try"
    /\ ret' = yaml_parse_load(args.dataset_yaml_src, load_data)
    /\ pc' = "finally"
    /\ UNCHANGED <<self, space, batch, out, back, eq, hashes, args, history, load_data>>

\* finally: control.pop_load_data()
PopLoadData ==
    /\ pc = "finally"
    /\ IF FinallyRuns(ret)
       THEN /\ load_data' = pop_load_data(load_data)
            /\ history' = Append(history, "pop_load_data")
       ELSE UNCHANGED <<load_data, history>>
    /\ pc' = "leaving"
    /\ UNCHANGED <<self, space, batch, out, back, eq, hashes, args, ret>>

\* return rval, or the exception of the load goes on to the caller
ReturnOrRaise ==
    /\ pc = "leaving"
    /\ pc' = "done"
    /\ UNCHANGED <<self, space, batch, out, back, eq, hashes, args, ret, history, load_data>>

LoadNext == ImportGlobals \/ PushLoadData \/ YamlLoad \/ PopLoadData \/ ReturnOrRaise

LoadSpec == LoadInit /\ [][LoadNext]_vars

\* ------------------------------------------------------ multiplexed batches
\* A MultiplexingMatrixIterator is built over the drawn matrices and next()
\* is called MaxNext times; rng draws the matrix and the start row of every
\* slice.
MuxInit ==
    /\ \E lengths \in SeqsUpTo(1..MaxRows, MaxMatrices),
          num_slices \in 0..MaxSlices, slice_length \in 0..MaxSlices,
          num_batches \in 0..MaxBatch,
          source \in {<<"features">>, <<"features", "targets1">>,
                      <<"targets2", "features", "targets1">>, <<"labels">>} :
          args = [ctor |-> "MultiplexingMatrixIterator", lengths |-> lengths,
                  num_slices |-> num_slices, slice_length |-> slice_length,
                  num_batches |-> num_batches, source |-> source]
    /\ self = NoObject
    /\ space = NoObject
    /\ batch = NoBatch
    /\ pc = "args"
    /\ out = NotCalled
    /\ back = NotCalled
    /\ eq = <<>>
    /\ hashes = <<>>
    /\ ret = NotReturned
    /\ history = <<>>
    /\ load_data = <<TRUE>>

\* self = MultiplexingMatrixIterator(...)
NewMultiplexingMatrixIterator ==
    /\ pc = "args"
    /\ LET made == MultiplexingMatrixIterator_init(args.lengths, args.num_slices,
                       args.slice_length, args.num_batches, args.source)
       IN  /\ self' = made.val
           /\ ret' = IF made.status = "ok" THEN Ok(None) ELSE made
           /\ pc' = IF made.status = "ok" THEN "iterating" ELSE "failed"
    /\ UNCHANGED <<space, batch, out, back, eq, hashes, args, history, load_data>>

\* self.next(); history lists how every call ended
MuxNext ==
    /\ pc = "iterating"
    /\ Len(history) < MaxNext
    /\ \E list_idxs \in [1..self._num_slices -> 0..(self.n_lists - 1)],
          slice_starts \in [1..self._num_slices -> 0..MaxRows] :
          /\ \A ii \in 1..self._num_slices :
                LET high == self.max_start_idxs[list_idxs[ii] + 1]
                IN  IF randint_raises(0, high) THEN slice_starts[ii] = 0
                    ELSE slice_starts[ii] \in randint_values(0, high)
          /\ LET call == MultiplexingMatrixIterator_next(self, list_idxs, slice_starts)
             IN  /\ self' = call.self
                 /\ ret' = call.ret
                 /\ history' = Append(history, call.ret.status)
    /\ UNCHANGED <<space, batch, pc, out, back, eq, hashes, args, load_data>>

MuxSpecNext == NewMultiplexingMatrixIterator \/ MuxNext

MuxSpec == MuxInit /\ [][MuxSpecNext]_vars

\* ----------------------------------------------------------- a patch viewer
\* A PatchViewer is built from the drawn arguments, then add_patch and clear
\* are called MaxPatches times in any order with any patch.
GridShapes ==
    {<<PyInt(r), PyInt(c)>> : r \in 0..MaxGrid, c \in 0..MaxGrid}
        \cup {<<PyInt(1)>>, <<PyInt(1), PyFloat(1)>>}

ViewInit ==
    /\ \E grid_shape \in GridShapes, is_color \in BOOLEAN,
          pad \in {PyNone, PySeq("tuple", <<1, 1>>)} :
          args = [ctor |-> "PatchViewer", grid_shape |-> grid_shape,
                  patch_shape |-> <<PyInt(2), PyInt(1)>>,
                  is_color |-> is_color, pad |-> pad]
    /\ self = NoObject
    /\ space = NoObject
    /\ batch = NoBatch
    /\ pc = "args"
    /\ out = NotCalled
    /\ back = NotCalled
    /\ eq = <<>>
    /\ hashes = <<>>
    /\ ret = NotReturned
    /\ history = <<>>
    /\ load_data = <<TRUE>>

\* self = PatchViewer(...): __init__ ends with self.clear()
NewPatchViewer ==
    /\ pc = "args"
    /\ LET made == PatchViewer_init(args.grid_shape, args.patch_shape,
                                    args.is_color, args.pad)
       IN  /\ self' = IF made.status = "ok" THEN PatchViewer_clear(made.val) ELSE made.val
           /\ ret' = IF made.status = "ok" THEN Ok(None) ELSE made
           /\ pc' = IF made.status = "ok" THEN "viewing" ELSE "failed"
    /\ UNCHANGED <<space, batch, out, back, eq, hashes, args, history, load_data>>

\* the calls of add_patch made: the full patch with and without activation
\* shells, patches of other shapes to be centred, and values out of range
AddPatchCalls ==
    [patch : [shape : {<<2, 1>>}, channels : {0, 3}, values : {"unit"}],
     rescale : {TRUE}, recenter : {FALSE}, activation : {<<>>, <<1>>, <<-1>>}]
    \cup [patch : [shape : {<<1, 1>>, <<3, 1>>, <<2, 2>>}, channels : {0, 1},
                   values : {"unit"}],
          rescale : {TRUE}, recenter : {TRUE}, activation : {<<>>}]
    \cup [patch : [shape : {<<2, 1>>}, channels : {3}, values : {"large", "nan"}],
          rescale : BOOLEAN, recenter : {TRUE}, activation : {<<>>}]

\* self.add_patch(patch, rescale, recenter, activation), activation the
\* empty tuple for None; history lists, for every call, how it ended, cur_pos
\* before and after it and the cell start it drew at
AddPatch ==
    /\ pc = "viewing"
    /\ Len(history) < MaxPatches
    /\ \E a \in AddPatchCalls :
          \E call \in {PatchViewer_add_patch(self, a.patch, a.rescale, a.recenter, a.activation)} :
              /\ self' = call.self
              /\ ret' = call.ret
              /\ history' = Append(history,
                     [op |-> "add_patch", status |-> call.ret.status,
                      at |-> self.cur_pos, after |-> call.self.cur_pos,
                      rs |-> call.rs, cs |-> call.cs])
    /\ UNCHANGED <<space, batch, pc, out, back, eq, hashes, args, load_data>>

\* self.clear()
Clear ==
    /\ pc = "viewing"
    /\ Len(history) < MaxPatches
    /\ self' = PatchViewer_clear(self)
    /\ ret' = Ok(None)
    /\ history' = Append(history,
           [op |-> "clear", status |-> "ok", at |-> self.cur_pos,
            after |-> <<0, 0>>, rs |-> 0, cs |-> 0])
    /\ UNCHANGED <<space, batch, pc, out, back, eq, hashes, args, load_data>>

ViewNext == NewPatchViewer \/ AddPatch \/ Clear

ViewSpec == ViewInit /\ [][ViewNext]_vars

\* ------------------------------------------------- two paths between images
\* A batch of image space S1 is converted to image space S2 of the same
\* shape and channels, directly (FormatAs) or through the vector space of
\* their total dimension (FormatVia).
PathInit ==
    /\ \E S \in ImageSpaces, ax \in AxesOrders :
          /\ self = S
          /\ space = Conv2DSpace(S.shape, "tuple", S.num_channels, ax, "tuple")
          /\ batch = ValidBatch(S, MaxBatch, "iota")
    /\ pc = "start"
    /\ out = NotCalled
    /\ back = NotCalled
    /\ eq = <<>>
    /\ hashes = <<>>
    /\ args = NoArgs
    /\ ret = NotReturned
    /\ history = <<>>
    /\ load_data = <<TRUE>>

\* out = self.format_as(batch, V); back = V.format_as(out, space), with V the
\* VectorSpace of self's total dimension
FormatVia ==
    /\ pc = "start"
    /\ batch # NoBatch
    /\ LET V    == FlatSpaceOf(self)
           flat == Space_format_as(self, batch, V)
       IN  /\ out' = flat
           /\ back' = IF flat.status = "ok" THEN Space_format_as(V, flat.val, space)
                      ELSE NotCalled
    /\ pc' = "via"
    /\ UNCHANGED <<history, load_data, self, space, batch, eq, hashes, args, ret>>

PathNext == FormatAs \/ FormatVia

PathSpec == PathInit /\ [][PathNext]_vars

\* ------------------------------------------------------ a descriptor's life
\* Any sequence of public operations on one descriptor, constructed or
\* reloaded from an old pickle, each with arguments drawn anew.

\* the descriptors constructed
BuiltSpaces ==
    {VectorSpace(2, FALSE), VectorSpace(1, TRUE),
     Conv2DSpace(<<1, 2>>, "tuple", 1, DefaultAxes, "tuple"),
     Conv2DSpace(<<2, 1>>, "tuple", 2, <<"c", "0", "1", "b">>, "tuple"),
     Conv2DSpace(<<1, 1>>, "list", 2, <<"0", "b", "c", "1">>, "list"),
     CompositeSpace(<<>>),
     CompositeSpace(<<VectorSpace(1, FALSE),
                      Conv2DSpace(<<1, 2>>, "tuple", 1, DefaultAxes, "tuple")>>),
     CompositeSpace(<<Conv2DSpace(<<1, 1>>, "tuple", MaxChannels, DefaultAxes, "tuple"),
                      CompositeSpace(<<VectorSpace(2, FALSE)>>)>>),
     NullSpace}

\* the descriptors reloaded
ReloadedSpaces ==
    {ReloadedConv2DSpace(<<h, 1>>, c, ax) :
        h \in Sides, c \in Channels, ax \in {DefaultAxes, <<"c", "0", "1", "b">>}}

\* the batches passed to a descriptor: conforming ones with and without a
\* debug value, one of another shape, None and the empty tuple
LifeBatches(S) ==
    LET good == {ValidBatch(SavedAs(S), n, "iota") : n \in BatchSizes}
    IN  good \cup {[x EXCEPT !.debug = FALSE] : x \in good}
             \cup {None, TupleBatch(<<>>),
                   Tensor(<<1, 1, 1, 3>>, <<1, 2, 3>>, FALSE, TRUE),
                   Tensor(<<1, 3>>, <<1, 2, 3>>, FALSE, TRUE)}

\* the arrays passed to np_format_as: of the rank the descriptor takes
LifeArrays(S) ==
    {ValidBatch(SavedAs(S), n, "iota") : n \in BatchSizes} \cup
    (CASE S.kind = "Conv2DSpace" -> {Tensor(<<1, 1, 1, 3>>, <<1, 2, 3>>, FALSE, TRUE)}
       [] S.kind = "NullSpace"   -> {Tensor(<<1, 1>>, <<1>>, FALSE, TRUE)}
       [] OTHER                  -> {})

\* the other descriptor of format_as, np_format_as and ==
LifeOthers(S) ==
    {SavedAs(S), FlatSpaceOf(SavedAs(S)), VectorSpace(3, FALSE), NullSpace,
     Conv2DSpace(<<1, 1>>, "tuple", 1, DefaultAxes, "tuple"),
     Conv2DSpace(<<2, 1>>, "tuple", 1, <<"b", "c", "0", "1">>, "tuple"),
     Conv2DSpace(<<1, 2>>, "tuple", 1, <<"c", "0", "1", "b">>, "tuple"),
     CompositeSpace(<<VectorSpace(1, FALSE), VectorSpace(1, FALSE)>>)}

LifeCounts == {PyInt(0), PyInt(1), PyInt(MaxBatch), PyFloat(1)}

LifeSubsets == {PySeq("tuple", <<0>>), PySeq("list", <<1, 0>>), PySeq("tuple", <<MaxComponents>>)}

LifeInit ==
    /\ self \in BuiltSpaces \cup ReloadedSpaces
    /\ space = NoObject
    /\ batch = NoBatch
    /\ args = NoArgs
    /\ pc = "loaded"
    /\ out = NotCalled
    /\ back = NotCalled
    /\ eq = <<>>
    /\ hashes = <<>>
    /\ ret = NotReturned
    /\ history = <<>>
    /\ load_data = <<TRUE>>

\* self.validate(batch)
CallValidate ==
    /\ \E x \in LifeBatches(self) :
          /\ batch' = x
          /\ ret' = Obj_validate(self, x)
    /\ space' = NoObject /\ args' = NoArgs
    /\ pc' = "validate"
    /\ UNCHANGED <<self, out, back, eq, hashes, history, load_data>>

\* self.format_as(batch, space)
CallFormatAs ==
    /\ \E x \in LifeBatches(self), other \in LifeOthers(self) :
          /\ batch' = x
          /\ space' = other
          /\ LET call == Obj_format_as(self, x, other)
             IN  ret' = call.ret /\ self' = call.self
    /\ args' = NoArgs
    /\ pc' = "format_as"
    /\ UNCHANGED <<out, back, eq, hashes, history, load_data>>

\* self.np_format_as(batch, space)
CallNpFormatAs ==
    /\ \E x \in LifeArrays(self), other \in LifeOthers(self) :
          /\ batch' = x
          /\ space' = other
          /\ LET call == Obj_np_format_as(self, x, other)
             IN  ret' = call.ret /\ self' = call.self
    /\ args' = NoArgs
    /\ pc' = "np_format_as"
    /\ UNCHANGED <<out, back, eq, hashes, history, load_data>>

\* self.get_total_dimension()
CallGetTotalDimension ==
    /\ LET call == Obj_get_total_dimension(self)
       IN  ret' = call.ret /\ self' = call.self
    /\ batch' = NoBatch /\ space' = NoObject /\ args' = NoArgs
    /\ pc' = "get_total_dimension"
    /\ UNCHANGED <<out, back, eq, hashes, history, load_data>>

\* self.get_origin()
CallGetOrigin ==
    /\ ret' = Obj_get_origin(self)
    /\ batch' = NoBatch /\ space' = NoObject /\ args' = NoArgs
    /\ pc' = "get_origin"
    /\ UNCHANGED <<self, out, back, eq, hashes, history, load_data>>

\* self.get_origin_batch(n)
CallGetOriginBatch ==
    /\ \E n \in LifeCounts :
          /\ args' = [NoArgs EXCEPT !.n = n]
          /\ ret' = Obj_get_origin_batch(self, n)
    /\ batch' = NoBatch /\ space' = NoObject
    /\ pc' = "get_origin_batch"
    /\ UNCHANGED <<self, out, back, eq, hashes, history, load_data>>

\* self.get_batch_size(batch)
CallGetBatchSize ==
    /\ \E x \in LifeBatches(self) :
          /\ batch' = x
          /\ ret' = Obj_get_batch_size(self, x)
    /\ space' = NoObject /\ args' = NoArgs
    /\ pc' = "get_batch_size"
    /\ UNCHANGED <<self, out, back, eq, hashes, history, load_data>>

\* self.restrict(subset), which CompositeSpace alone defines
CallRestrict ==
    /\ self.kind = "CompositeSpace"
    /\ \E q \in LifeSubsets :
          /\ args' = [NoArgs EXCEPT !.subset = q]
          /\ ret' = CompositeSpace_restrict(self, q.v)
    /\ batch' = NoBatch /\ space' = NoObject
    /\ pc' = "restrict"
    /\ UNCHANGED <<self, out, back, eq, hashes, history, load_data>>

\* self.restrict_batch(batch, subset)
CallRestrictBatch ==
    /\ self.kind = "CompositeSpace"
    /\ \E x \in LifeBatches(self), q \in LifeSubsets :
          /\ batch' = x
          /\ args' = [NoArgs EXCEPT !.subset = q]
          /\ ret' = CompositeSpace_restrict_batch(self, x, q.v)
    /\ space' = NoObject
    /\ pc' = "restrict_batch"
    /\ UNCHANGED <<self, out, back, eq, hashes, history, load_data>>

\* self == space
CallEq ==
    /\ \E other \in LifeOthers(self) :
          /\ space' = other
          /\ ret' = Obj_eq(self, other)
    /\ batch' = NoBatch /\ args' = NoArgs
    /\ pc' = "__eq__"
    /\ UNCHANGED <<self, out, back, eq, hashes, history, load_data>>

\* hash(self)
CallHash ==
    /\ ret' = Obj_hash(self)
    /\ batch' = NoBatch /\ space' = NoObject /\ args' = NoArgs
    /\ pc' = "__hash__"
    /\ UNCHANGED <<self, out, back, eq, hashes, history, load_data>>

\* str(self)
CallStr ==
    /\ ret' = Obj_str(self)
    /\ batch' = NoBatch /\ space' = NoObject /\ args' = NoArgs
    /\ pc' = "__str__"
    /\ UNCHANGED <<self, out, back, eq, hashes, history, load_data>>

\* self.make_theano_batch(), under either setting of config.compute_test_value
CallMakeTheanoBatch ==
    /\ \E compute_test_value \in {"off", "raise"} :
          /\ args' = [NoArgs EXCEPT !.ctor = compute_test_value]
          /\ ret' = Obj_make_theano_batch(self, compute_test_value)
    /\ batch' = NoBatch /\ space' = NoObject
    /\ pc' = "make_theano_batch"
    /\ UNCHANGED <<self, out, back, eq, hashes, history, load_data>>

LifeNext ==
    \/ CallValidate
    \/ CallFormatAs
    \/ CallNpFormatAs
    \/ CallGetTotalDimension
    \/ CallGetOrigin
    \/ CallGetOriginBatch
    \/ CallGetBatchSize
    \/ CallRestrict
    \/ CallRestrictBatch
    \/ CallEq
    \/ CallHash
    \/ CallStr
    \/ CallMakeTheanoBatch

LifeSpec == LifeInit /\ [][LifeNext]_vars

\* ------------------------------------------------------------- properties
\* What the properties speak of, stated apart from the conversion code.

\* the 0-based coordinates of the element at 0-based flat position k
Unravel(k, shape) ==
    LET stride == Strides(shape)
    IN  [i \in 1..Len(shape) |-> (k \div stride[i]) % shape[i]]

\* the extent of the axis tagged a in a batch of n examples of image space S
Extent(S, n, a) ==
    CASE a = "b" -> n
      [] a = "c" -> S.num_channels
      [] a = "0" -> S.shape[1]
      [] OTHER   -> S.shape[2]

RECURSIVE Conforms(_, _)
\* the batch is a batch of the descriptor: a matrix with dim columns, a 4D
\* array whose extents follow the axes, a tuple of conforming batches, None
Conforms(S, x) ==
    CASE S.kind = "VectorSpace" ->
             /\ x.kind = "tensor" /\ Len(x.shape) = 2
             /\ x.shape[2] = S.dim /\ x.sparse = S.sparse
             /\ Len(x.data) = x.shape[1] * x.shape[2]
      [] S.kind = "Conv2DSpace" ->
             /\ x.kind = "tensor" /\ Len(x.shape) = 4 /\ ~ x.sparse
             /\ \A i \in 1..4 : x.shape[i] = Extent(S, x.shape[IndexOf(S.axes, "b")], S.axes[i])
             /\ Len(x.data) = Prod(x.shape)
      [] S.kind = "CompositeSpace" ->
             /\ x.kind = "tuple" /\ Len(x.items) = Len(S.components)
             /\ \A i \in 1..Len(x.items) : Conforms(S.components[i], x.items[i])
      [] OTHER -> x.kind = "None"

\* x read with axes x_axes and y read with axes y_axes hold the same value at
\* every logical pixel (b, c, row, col)
SamePixels(x, x_axes, y, y_axes) ==
    /\ Len(y.shape) = 4 /\ Len(x.shape) = 4
    /\ \A i \in 1..4 : y.shape[i] = x.shape[IndexOf(x_axes, y_axes[i])]
    /\ Len(y.data) = Len(x.data)
    /\ \A k \in 1..Len(x.data) :
           LET idx  == Unravel(k - 1, x.shape)
               yidx == [i \in 1..4 |-> idx[IndexOf(x_axes, y_axes[i])]]
           IN  y.data[Ravel(yidx, y.shape) + 1] = x.data[k]

\* the call converts an image batch to the vector space of its dimension
ImageToVectorCall ==
    /\ self.kind = "Conv2DSpace" /\ space.kind = "VectorSpace" /\ ~ space.sparse
    /\ space.dim = self.shape[1] * self.shape[2] * self.num_channels
    /\ Conforms(self, batch)

\* the call converts a matrix to an image space of its dimension
VectorToImageCall ==
    /\ self.kind = "VectorSpace" /\ space.kind = "Conv2DSpace" /\ ~ self.sparse
    /\ self.dim = space.shape[1] * space.shape[2] * space.num_channels
    /\ Conforms(self, batch)

\* C1: a valid image batch converted to the vector space of its total
\* dimension and back is reproduced element for element, for each of the 24
\* axis orders; likewise a valid matrix converted to the image space and
\* back; and with axes ('b', 0, 1, 'c') row b of the matrix lists example b
\* in (row, col, channel) order.
C1_ImageVectorRoundTrip ==
    /\ (pc \in {"formatted", "returned"} /\ ImageToVectorCall) =>
           /\ out.status = "ok"
           /\ Conforms(space, out.val)
           /\ out.val.shape[1] = batch.shape[IndexOf(self.axes, "b")]
           /\ self.axes = DefaultAxes =>
                  \A b \in 0..(batch.shape[1] - 1), r \in 0..(self.shape[1] - 1),
                     c \in 0..(self.shape[2] - 1), ch \in 0..(self.num_channels - 1) :
                        out.val.data[b * space.dim
                                     + (r * self.shape[2] + c) * self.num_channels
                                     + ch + 1]
                          = At(batch, <<b, r, c, ch>>)
    /\ (pc \in {"formatted", "returned"} /\ VectorToImageCall) =>
           /\ out.status = "ok"
           /\ Conforms(space, out.val)
           /\ out.val.shape[IndexOf(space.axes, "b")] = batch.shape[1]
    /\ (pc = "returned" /\ (ImageToVectorCall \/ VectorToImageCall)) =>
           /\ back.status = "ok"
           /\ back.val = batch

\* C1 witness: two examples of an image whose batch axis is not first went to
\* the vector space and came back unchanged
C1_Witness ==
    /\ pc = "returned" /\ ImageToVectorCall
    /\ self.axes[1] # "b" /\ Len(batch.data) >= 8
    /\ batch.shape[IndexOf(self.axes, "b")] = 2
    /\ out.val.data # batch.data
    /\ back.val = batch

\* the call converts a vector batch to a composite of the same total
\* dimension whose components are vector, image or composite spaces
VectorToCompositeCall ==
    /\ self.kind = "VectorSpace" /\ ~ self.sparse /\ self.dim >= 1
    /\ space.kind = "CompositeSpace"
    /\ ~ Space_get_total_dimension(space).raised
    /\ Space_get_total_dimension(space).value = self.dim
    /\ Conforms(self, batch)

\* C2: a valid batch of VectorSpace(d) converted to any CompositeSpace of
\* total dimension d and back to VectorSpace(d) is reproduced exactly.
C2_VectorCompositeRoundTrip ==
    /\ (pc \in {"formatted", "returned"} /\ VectorToCompositeCall) => out.status = "ok"
    /\ (pc = "returned" /\ VectorToCompositeCall) =>
           back.status = "ok" /\ back.val = batch

\* the call converts a valid image batch to an image space of the same shape
\* and channels
ImageToImageCall ==
    /\ self.kind = "Conv2DSpace" /\ space.kind = "Conv2DSpace"
    /\ self.shape = space.shape /\ self.num_channels = space.num_channels
    /\ Conforms(self, batch)

\* C3: between two image spaces of the same shape and channels, with any two
\* axis orders, the conversion forth and back reproduces the batch, and the
\* forward conversion only moves elements: the result is a batch of the
\* destination holding at every logical pixel the value the source holds
\* there (a one-to-one map of positions, so the same multiset of values).
C3_ImageImageRoundTrip ==
    /\ (pc \in {"formatted", "returned"} /\ ImageToImageCall) =>
           /\ out.status = "ok"
           /\ Conforms(space, out.val)
           /\ SamePixels(batch, self.axes, out.val, space.axes)
    /\ (pc = "returned" /\ ImageToImageCall) =>
           back.status = "ok" /\ back.val = batch

\* C3 witness: an image batch went to a different axis order, where its
\* elements lie in another order, and came back unchanged
C3_Witness ==
    /\ pc = "returned" /\ ImageToImageCall
    /\ self.axes = DefaultAxes /\ space.axes = <<"b", "c", "0", "1">>
    /\ out.val.data # batch.data
    /\ back.val = batch

\* C4: convert(T, src, dst) returns T' with T'.shape[i] = T.shape[src.index(dst[i])]
\* and the same element at every logical (b, c, row, col); with src = dst it
\* returns T itself.
C4_ConvertPermutesAxes ==
    pc = "converted" =>
        /\ out.status = "ok"
        /\ \A i \in 1..4 : out.val.shape[i] = batch.shape[IndexOf(self.axes, space.axes[i])]
        /\ SamePixels(batch, self.axes, out.val, space.axes)
        /\ self.axes = space.axes => (out.alias /\ out.val = batch)
        /\ self.axes # space.axes => ~ out.alias

\* C4 witness: convert moved the batch axis of a tensor with distinct extents
C4_Witness ==
    /\ pc = "converted"
    /\ self.axes = <<"c", "0", "1", "b">> /\ space.axes = <<"b", "0", "1", "c">>
    /\ batch.shape = <<1, 2, 1, 2>>
    /\ out.val.shape = <<2, 2, 1, 1>>
    /\ out.val.data # batch.data

\* both total dimensions are defined and they differ
DimensionsDisagree ==
    /\ ~ Space_get_total_dimension(self).raised
    /\ ~ Space_get_total_dimension(space).raised
    /\ Space_get_total_dimension(self).value # Space_get_total_dimension(space).value

\* C5: format_as between descriptors whose total dimensions differ returns
\* no batch; for a batch that validates it raises the dimension error (a
\* ValueError naming both totals) before any conversion rule runs.
C5_DimensionMismatchRaises ==
    (pc = "formatted" /\ DimensionsDisagree) =>
        /\ out.status # "ok"
        /\ out.val = NoBatch
        /\ Space_validate(self, batch) = "ok" =>
               /\ out.status = "ValueError"
               /\ out.info.my_dimension = Space_get_total_dimension(self).value
               /\ out.info.other_dimension = Space_get_total_dimension(space).value
               /\ "_format_as" \notin Range(out.trace)

\* C5 witness: VectorSpace(3) was asked to format a valid batch as VectorSpace(4)
C5_Witness ==
    /\ pc = "formatted"
    /\ self = VectorSpace(3, FALSE) /\ space = VectorSpace(4, FALSE)
    /\ Conforms(self, batch)
    /\ out.status = "ValueError"
    /\ out.info.my_dimension = 3 /\ out.info.other_dimension = 4

\* C6: for every descriptor kind, format_as of a valid batch to an equal
\* descriptor returns the batch itself and dispatches to no conversion rule.
C6_IdentityShortCircuit ==
    (pc = "formatted" /\ Space_eq(self, space) /\ Conforms(self, batch)) =>
        /\ out.status = "ok"
        /\ out.val = batch /\ out.alias
        /\ "_format_as" \notin Range(out.trace)

\* the pair of kinds has no conversion rule
NoRulePair ==
    \/ self.kind = "CompositeSpace" /\ space.kind = "CompositeSpace" /\ self # space
    \/ self.kind = "Conv2DSpace" /\ space.kind = "CompositeSpace"
    \/ self.kind = "CompositeSpace" /\ space.kind = "Conv2DSpace"
    \/ self.kind = "VectorSpace" /\ space.kind = "VectorSpace" /\ self # space

\* C7: format_as of a valid batch between descriptors of equal total
\* dimension whose pair of kinds has no conversion rule (composite to another
\* composite, image to composite, vector to a vector with other attributes)
\* raises the unsupported-conversion error naming both; no batch comes back.
C7_NoRuleRaises ==
    (/\ pc = "formatted" /\ NoRulePair /\ Conforms(self, batch)
     /\ ~ Space_get_total_dimension(self).raised
     /\ ~ Space_get_total_dimension(space).raised
     /\ Space_get_total_dimension(self).value = Space_get_total_dimension(space).value) =>
        /\ out.status = "NotImplementedError"
        /\ out.val = NoBatch
        /\ out.info.self = self.kind /\ out.info.space = space.kind

\* C8: NullSpace().format_as(None, NullSpace()) returns None; from NullSpace
\* to a non-null descriptor, or with a batch other than None, it fails.
C8_NullToNull ==
    (pc = "formatted" /\ self = NullSpace) =>
        IF space = NullSpace /\ batch = None
        THEN out.status = "ok" /\ out.val = None
        ELSE out.status # "ok"

\* the value of an attribute, whatever Python sequence type holds it
RECURSIVE SameDescriptor(_, _)
SameDescriptor(a, b) ==
    /\ a.kind = b.kind
    /\ a.dim = b.dim /\ a.sparse = b.sparse
    /\ a.shape = b.shape /\ a.num_channels = b.num_channels /\ a.axes = b.axes
    /\ Len(a.components) = Len(b.components)
    /\ \A i \in 1..Len(a.components) : SameDescriptor(a.components[i], b.components[i])

\* C9: two descriptors are == exactly when they are the same variant with
\* equal attributes (dim and sparse; shape, num_channels and axes; the
\* components in order), and != is the negation of ==.
C9_StructuralEquality ==
    pc = "compared" =>
        /\ eq[1] <=> SameDescriptor(self, space)
        /\ eq[2] <=> ~ eq[1]

\* C10: hash is defined for every descriptor the constructors accept (shape
\* and axes as lists or tuples), and equal descriptors have equal hashes.
C10_HashConsistent ==
    pc = "hashed" =>
        /\ ~ hashes[1].raised /\ ~ hashes[2].raised
        /\ Space_eq(self, space) => hashes[1] = hashes[2]

\* the call constructs a Conv2DSpace
Conv2DSpaceConstructed == pc = "constructed" /\ args.ctor = "Conv2DSpace"

\* the sequence is an order of exactly the four tags 'b', 'c', 0, 1
IsAxesOrder(axes) == Len(axes) = 4 /\ Range(axes) = AxisTags

\* C11: every Conv2DSpace that construction succeeds for has axes that are
\* an order of exactly 'b', 'c', 0, 1; an axes argument of length 4 with a
\* repeated or foreign tag is rejected, and an omitted axes argument gives
\* ('b', 0, 1, 'c').
C11_AxesIsPermutation ==
    Conv2DSpaceConstructed =>
        /\ ret.status = "ok" => IsAxesOrder(ret.val.axes)
        /\ (/\ args.axes.type \in {"tuple", "list"}
            /\ Len(args.axes.v) = 4
            /\ ~ IsAxesOrder(args.axes.v)) => ret.status # "ok"
        /\ (args.axes = PyNone /\ ret.status = "ok") => ret.val.axes = DefaultAxes

\* the call constructs a VectorSpace
VectorSpaceConstructed == pc = "constructed" /\ args.ctor = "VectorSpace"

\* C12: VectorSpace(dim) with dim that is not a positive integer (zero,
\* negative or not an integer) fails at construction; no VectorSpace with
\* such a dim exists.
C12_VectorDimPositive ==
    (VectorSpaceConstructed /\ ~ (IsInteger(args.dim) /\ args.dim.v > 0)) =>
        ret.status # "ok"

\* C13: Conv2DSpace construction succeeds only when exactly one of channels
\* and num_channels is given: both (even when equal) or neither fails, and
\* the num_channels of the object is the one given.
C13_ExactlyOneChannelArg ==
    Conv2DSpaceConstructed =>
        /\ (args.channels # PyNone /\ args.num_channels # PyNone) => ret.status # "ok"
        /\ (args.channels = PyNone /\ args.num_channels = PyNone) => ret.status # "ok"
        /\ ret.status = "ok" =>
               /\ args.channels = PyNone => PyInt(ret.val.num_channels) = args.num_channels
               /\ args.num_channels = PyNone => PyInt(ret.val.num_channels) = args.channels

\* C13 witness: shape=(2,2), channels=1, num_channels=1, axes=('b',0,1,'c')
\* was refused
C13_Witness ==
    /\ Conv2DSpaceConstructed
    /\ args.shape = PySeq("tuple", <<PyInt(2), PyInt(2)>>)
    /\ args.channels = PyInt(1) /\ args.num_channels = PyInt(1)
    /\ args.axes = PySeq("tuple", DefaultAxes)
    /\ ret.status = "AssertionError"

\* validate was called on a VectorSpace with a tensor of its own kind of
\* storage (dense for a dense space, sparse for a sparse one)
VectorValidated ==
    /\ pc = "validated" /\ self.kind = "VectorSpace"
    /\ batch.kind = "tensor" /\ batch.sparse = self.sparse

\* C14: VectorSpace(dim=d).validate accepts every 2D batch of shape (n, d)
\* and raises the shape error (a ValueError) for a 2D batch whose column
\* count differs from d, such as (n, d+1), and for a batch that is not 2D.
C14_VectorValidateColumns ==
    VectorValidated =>
        IF Len(batch.shape) = 2 /\ batch.shape[2] = self.dim
        THEN ret.status = "ok"
        ELSE ret.status = "ValueError"

\* validate was called on a Conv2DSpace with a dense tensor
ImageValidated ==
    /\ pc = "validated" /\ self.kind = "Conv2DSpace"
    /\ batch.kind = "tensor" /\ ~ batch.sparse

\* the tensor is 4D and its extents at the positions of 'c', 0 and 1 are
\* num_channels, shape[0] and shape[1]
ImageShapeConforms(S, x) ==
    /\ Len(x.shape) = 4
    /\ x.shape[IndexOf(S.axes, "c")] = S.num_channels
    /\ x.shape[IndexOf(S.axes, "0")] = S.shape[1]
    /\ x.shape[IndexOf(S.axes, "1")] = S.shape[2]

\* C15: Conv2DSpace.validate raises the shape error (a ValueError) unless
\* the batch is 4D with num_channels along 'c' and shape[0], shape[1] along
\* 0 and 1, for every axis order and whether or not the batch carries a
\* debug value.
C15_ImageValidateExtents ==
    ImageValidated =>
        IF ImageShapeConforms(self, batch)
        THEN ret.status = "ok"
        ELSE ret.status = "ValueError"

RECURSIVE HasNoNullSpace(_)
\* the descriptor is a VectorSpace, a Conv2DSpace or a CompositeSpace of such
HasNoNullSpace(S) ==
    /\ S.kind \in {"VectorSpace", "Conv2DSpace", "CompositeSpace"}
    /\ \A i \in 1..Len(S.components) : HasNoNullSpace(S.components[i])

RECURSIVE TotalOf(_)
\* the total dimension as the claim defines it
TotalOf(S) ==
    CASE S.kind = "VectorSpace" -> S.dim
      [] S.kind = "Conv2DSpace" -> S.shape[1] * S.shape[2] * S.num_channels
      [] OTHER -> IF S.components = <<>> THEN 0
                  ELSE TotalOf(S.components[1])
                       + TotalOf(CompositeSpace(Tail(S.components)))

AllZero(x) ==
    /\ x.kind = "tensor"
    /\ Len(x.data) = Prod(x.shape)
    /\ \A k \in 1..Len(x.data) : x.data[k] = 0

C18_OriginBatchCount ==
    (/\ pc = "origin_batch" /\ HasNoNullSpace(self)
     /\ ~ (IsInteger(args.n) /\ args.n.v > 0)) =>
        ret.status # "ok"

\* the indices of the subset are indices 0 .. len-1 of the components
PlainIndices(S, q) == \A k \in 1..Len(q) : q[k] >= 0 /\ q[k] < Len(S.components)

\* C19: restrict(subset) returns component i itself for a subset of exactly
\* one index i, and otherwise the CompositeSpace of components[i] for i in
\* subset, in the order of subset with duplicates kept; the CompositeSpace
\* it is called on is unchanged.
C19_RestrictProjects ==
    [][(pc = "ready" /\ pc' = "restricted" /\ PlainIndices(self, args.subset.v)) =>
          LET q == args.subset.v
          IN  /\ ret'.status = "ok"
              /\ IF Len(q) = 1
                 THEN ret'.val = self.components[q[1] + 1]
                 ELSE /\ ret'.val.kind = "CompositeSpace"
                      /\ Len(ret'.val.components) = Len(q)
                      /\ \A k \in 1..Len(q) :
                             ret'.val.components[k] = self.components[q[k] + 1]
              /\ self' = self]_vars

\* C19 witness: restrict(CompositeSpace([A, B, C]), [2, 0]) gave CompositeSpace([C, A])
C19_Witness ==
    /\ pc = "restricted"
    /\ self = CompositeSpace(SubSeq(RestrictComponents, 1, 3))
    /\ args.subset = PySeq("list", <<2, 0>>)
    /\ ret.status = "ok"
    /\ ret.val = CompositeSpace(<<RestrictComponents[3], RestrictComponents[1]>>)

RECURSIVE LeafSizes(_, _)
\* the example counts of the tensors of the data, in component order, nested
\* composites flattened; a NullSpace and an empty composite hold none
LeafSizes(S, x) ==
    CASE S.kind = "VectorSpace" -> <<x.shape[1]>>
      [] S.kind = "Conv2DSpace" -> <<x.shape[IndexOf(S.axes, "b")]>>
      [] S.kind = "CompositeSpace" ->
             IF S.components = <<>> THEN <<>>
             ELSE LeafSizes(S.components[1], x.items[1])
                  \o LeafSizes(CompositeSpace(Tail(S.components)), TupleBatch(Tail(x.items)))
      [] OTHER -> <<>>

\* the first entry that is not 0, or 0
FirstNonZeroOf(sizes) ==
    LET nz == SelectSeq(sizes, LAMBDA b : b # 0)
    IN  IF nz = <<>> THEN 0 ELSE nz[1]

\* get_batch_size was called on a CompositeSpace with data that validates
BatchSizeOfValidData ==
    /\ pc = "batch_size" /\ self.kind = "CompositeSpace"
    /\ Space_validate(self, batch) = "ok"

AttributeValues(S) ==
    [dim |-> S.dim, sparse |-> S.sparse, shape |-> S.shape,
     num_channels |-> S.num_channels, axes |-> S.axes,
     components |-> S.components, num_components |-> Len(S.components)]

\* the descriptor went through a constructor: it has no legacy alias
Constructed(S) == ~ hasattr(S, "nchannels")

\* C21: whatever public operation is called on a constructed descriptor,
\* with whatever arguments, its attributes dim, sparse, shape, num_channels,
\* axes, components and num_components keep the values they had before the
\* call, hence those the constructor gave them.
C21_AttributesFrozen ==
    [][Constructed(self) => /\ Constructed(self')
                            /\ AttributeValues(self') = AttributeValues(self)]_vars

\* a constructed image descriptor after get_total_dimension, the one method
\* that writes an attribute
C21_Witness ==
    /\ pc = "get_total_dimension"
    /\ self.kind = "Conv2DSpace" /\ Constructed(self)
    /\ ret.status = "ok"

\* the descriptor the reloaded object stands for: num_channels == nchannels
Aliased(S) == Conv2DSpace(S.shape, S.shape_type, S.nchannels, S.axes, S.axes_type)

\* the outcome of the operation op on descriptor S with the arguments drawn
OutcomeOf(op, S, x, other, a) ==
    CASE op = "validate"            -> Obj_validate(S, x)
      [] op = "format_as"           -> Obj_format_as(S, x, other).ret
      [] op = "np_format_as"        -> Obj_np_format_as(S, x, other).ret
      [] op = "get_total_dimension" -> Obj_get_total_dimension(S).ret
      [] op = "get_origin"          -> Obj_get_origin(S)
      [] op = "get_origin_batch"    -> Obj_get_origin_batch(S, a.n)
      [] op = "get_batch_size"      -> Obj_get_batch_size(S, x)
      [] op = "__eq__"              -> Obj_eq(S, other)
      [] op = "__hash__"            -> Obj_hash(S)
      [] op = "__str__"             -> Obj_str(S)
      [] OTHER                      -> Obj_make_theano_batch(S, a.ctor)

SameOutcome(a, b) == a.status = b.status /\ (a.status = "ok" => a.val = b.val)

\* C22: every operation on a reloaded Conv2DSpace that has nchannels gives
\* the outcome it gives on the descriptor with num_channels == nchannels,
\* whether or not get_total_dimension was called before it.
C22_ReloadedBehavesAliased ==
    (pc \notin {"loaded", "restrict", "restrict_batch"} /\ ~ Constructed(self))
        => SameOutcome(ret, OutcomeOf(pc, Aliased(self), batch, space, args))

\* ------------------------------------------------ vector to composite
\* the columns [p, p + w) of matrix x
Columns(x, p, w) ==
    Tensor(<<x.shape[1], w>>,
           [k \in 1..(x.shape[1] * w) |-> At(x, <<(k - 1) \div w, p + ((k - 1) % w)>>)],
           x.sparse, x.debug)

\* w_i, the total dimension of component i, and p_i, the sum of w_j for j < i
WidthOf(C, i) == TotalOf(C.components[i])

OffsetOf(C, i) == SumSeq([j \in 1..(i - 1) |-> WidthOf(C, j)])

\* a conforming dense matrix is converted to a composite of its dimension
VectorSplitCall ==
    /\ self.kind = "VectorSpace" /\ ~ self.sparse
    /\ space.kind = "CompositeSpace" /\ HasNoNullSpace(space)
    /\ self.dim = TotalOf(space)
    /\ Conforms(self, batch)

\* C24: VectorSpace to CompositeSpace conversion returns a tuple with one
\* entry per component; entry i is columns [p_i, p_i + w_i) of the source
\* batch (formatted as component i), where w_i is the component's total
\* dimension and p_i the sum of the widths before it; the ranges start at 0,
\* follow one another without gap or overlap and end at dim.
C24_ComponentsGetTheirColumns ==
    (pc = "formatted" /\ VectorSplitCall) =>
        /\ out.status = "ok"
        /\ out.val.kind = "tuple"
        /\ Len(out.val.items) = Len(space.components)
        /\ \A i \in 1..Len(space.components) :
               LET w == WidthOf(space, i)
                   p == OffsetOf(space, i)
                   piece == Columns(batch, p, w)
               IN  /\ 0 <= p /\ p + w <= self.dim
                   /\ i > 1 => p = OffsetOf(space, i - 1) + WidthOf(space, i - 1)
                   /\ i = 1 => p = 0
                   /\ i = Len(space.components) => p + w = self.dim
                   /\ space.components[i].kind = "VectorSpace"
                          => out.val.items[i] = piece
                   /\ out.val.items[i]
                        = Space_format_as(VectorSpace(w, FALSE), piece,
                                          space.components[i]).val

\* C24 witness: a matrix of two examples was split between a vector
\* component and an image component; the second piece starts past column 0
C24_Witness ==
    /\ pc = "formatted" /\ VectorSplitCall
    /\ Len(space.components) = 2
    /\ space.components[1].kind = "VectorSpace"
    /\ space.components[2].kind = "Conv2DSpace"
    /\ batch.shape[1] = 2
    /\ out.status = "ok"
    /\ OffsetOf(space, 2) > 0

\* ------------------------------------------------ the steps of format_as
FormatSteps ==
    <<"validate", "get_total_dimension", "get_total_dimension", "__eq__", "_format_as">>

C26_PathIndependent ==
    pc = "via" =>
        /\ out.status = "ok"
        /\ back.status = "ok"
        /\ back.val = Space_format_as(self, batch, space).val
        /\ SamePixels(batch, self.axes, back.val, space.axes)

\* ------------------------------------------------------ iterating in batches
\* the batches next() has returned so far, in order
Yielded == SelectSeq(history, LAMBDA r : r.status = "ok")

\* the sequence length of the example with (0-based) index i
LengthOf(i) == args.sequence_lengths[i + 1]

\* C23: every batch an iterator built with sequence_lengths yields holds
\* indices of one sequence length only (and at least one index), and at most
\* batch_size of them; this holds for the sequential and the shuffled class.
C23_BatchesOfOneLength ==
    pc = "iterating" =>
        \A k \in 1..Len(Yielded) :
            LET b == Yielded[k].val
            IN  /\ Len(b) >= 1
                /\ Len(b) <= args.batch_size
                /\ \A i \in 1..Len(b), j \in 1..Len(b) : LengthOf(b[i]) = LengthOf(b[j])
                /\ \A i \in 1..Len(b) : b[i] \in 0..(args.dataset_size - 1)

\* C23 witness: a shuffled iterator over three sequences, two of them of the
\* same length, has yielded a full batch of two and a batch of the other
\* length
C23_Witness ==
    /\ pc = "iterating"
    /\ self.kind = "ShuffledSequentialSubsetIterator"
    /\ args.batch_size = 2 /\ args.dataset_size = 3
    /\ Len(Yielded) = 2
    /\ \E k \in 1..2 : Len(Yielded[k].val) = 2
    /\ LengthOf(Yielded[1].val[1]) # LengthOf(Yielded[2].val[1])

\* the indices of the batches yielded, one after the other
RECURSIVE Flatten(_)
Flatten(rs) == IF rs = <<>> THEN <<>> ELSE Head(rs).val \o Flatten(Tail(rs))

\* C28: the batches a SequentialSubsetIterator built with sequence_lengths
\* returns never repeat an index; when next() raises StopIteration they hold
\* every index 0..dataset_size-1 exactly once; and every call after a
\* StopIteration raises StopIteration again.
C28_BatchesPartition ==
    (pc = "iterating" /\ self.kind = "SequentialSubsetIterator") =>
        LET seen == Flatten(Yielded)
        IN  /\ \A i \in 1..Len(seen), j \in 1..Len(seen) : seen[i] = seen[j] => i = j
            /\ Range(seen) \subseteq 0..(args.dataset_size - 1)
            /\ ret.status = "StopIteration" =>
                   /\ Range(seen) = 0..(args.dataset_size - 1)
                   /\ Len(seen) = args.dataset_size
            /\ \A i \in 1..Len(history), j \in 1..Len(history) :
                   (i < j /\ history[i].status = "StopIteration")
                       => history[j].status = "StopIteration"

\* C28 witness: three sequences of one length in batches of one: three
\* batches were returned, then StopIteration was raised twice
C28_Witness ==
    /\ pc = "iterating"
    /\ self.kind = "SequentialSubsetIterator"
    /\ args.dataset_size = 3 /\ args.batch_size = 1
    /\ args.sequence_lengths = <<1, 1, 1>>
    /\ Len(Yielded) = 3
    /\ Len(history) = 5
    /\ history[4].status = "StopIteration" /\ history[5].status = "StopIteration"

\* -------------------------------------------------- loading without the data
\* the number of entries of the sequence s equal to x
CountOf(s, x) == Cardinality({i \in 1..Len(s) : s[i] = x})

\* C29: get_dataless_dataset pops the load-data stack exactly once for its
\* one push, whether the load returned or raised: when the call is over the
\* stack is what it was when the call was made; no pop is made before the
\* push; and while the load runs the setting in force is False.
C29_PushPopPaired ==
    /\ \A n \in 0..Len(history) :
           CountOf(SubSeq(history, 1, n), "pop_load_data")
               <= CountOf(SubSeq(history, 1, n), "push_load_data")
    /\ CountOf(history, "push_load_data") <= 1
    /\ pc \in {"try", "finally"} => load_data = Append(args.load_data, FALSE)
    /\ pc \in {"leaving", "done"} =>
           /\ load_data = args.load_data
           /\ history \in {<<>>, <<"push_load_data", "pop_load_data">>}
           /\ ret.status # "ImportError" => history = <<"push_load_data", "pop_load_data">>
    /\ (pc = "done" /\ ret.status = "ok") => ret.val.data_loaded = FALSE

\* C29 witness: the load raised with two settings already on the stack, and
\* the call is over with the push popped
C29_Witness ==
    /\ pc = "done"
    /\ ret.status = "Exception"
    /\ Len(args.load_data) = 3
    /\ history = <<"push_load_data", "pop_load_data">>
    /\ load_data = args.load_data

\* ------------------------------------------------------ multiplexed batches
\* the rows of component c form num_slices blocks of slice_length
\* consecutive rows, each inside one source matrix
InBlocks(c) ==
    /\ Len(c.rows) = self._num_slices * self._slice_length
    /\ \A ii \in 0..(self._num_slices - 1) :
           LET first == c.rows[ii * self._slice_length + 1]
           IN  /\ first[1] \in 0..(self.n_lists - 1)
               /\ first[2] >= 0
               /\ first[2] + self._slice_length <= self.lengths[first[1] + 1]
               /\ \A r \in 1..self._slice_length :
                      c.rows[ii * self._slice_length + r] = <<first[1], first[2] + r - 1>>

\* C27: an iterator built with num_batches = N returns a batch on each of
\* its first N next() calls and raises StopIteration on every later one, for
\* every construction the assertions accept; every component of a batch has
\* num_slices * slice_length rows in num_slices blocks of slice_length
\* consecutive rows of one source matrix, the same matrix and start row for
\* every component.
C27_BatchesThenStop ==
    pc = "iterating" =>
        /\ \A k \in 1..Len(history) :
               history[k] = IF k <= self._num_batches THEN "ok" ELSE "StopIteration"
        /\ (history # <<>> /\ ret.status = "ok") =>
               /\ Len(ret.val) = Len(self.source)
               /\ \A ss \in 1..Len(ret.val) :
                      /\ InBlocks(ret.val[ss])
                      /\ ret.val[ss].rows = ret.val[1].rows
                      /\ Len(ret.val[ss].rows) = MultiplexingMatrixIterator_batch_size(self)

\* ----------------------------------------------------------- a patch viewer
\* the last clear() among the first n calls, 0 when there is none
LastClear(n) ==
    LET clears == {j \in 1..n : history[j].op = "clear"}
    IN  IF clears = {} THEN 0 ELSE CHOOSE j \in clears : \A other \in clears : other <= j

\* the number of add_patch calls among the first n that returned, counted
\* from the last clear()
Added(n) ==
    Cardinality({i \in (LastClear(n) + 1)..n :
                    history[i].op = "add_patch" /\ history[i].status = "ok"})

\* the grid cell of the k-th patch since the last clear or wrap
CellOf(k) ==
    LET cells == self.grid_shape[1] * self.grid_shape[2]
    IN  <<(k % cells) \div self.grid_shape[2], (k % cells) % self.grid_shape[2]>>

\* C30: for a PatchViewer with a grid of R >= 1 rows and C >= 1 columns,
\* cur_pos = (r, c) always has 0 <= r < R and 0 <= c < C; the k-th add_patch
\* that returned since the last clear or wrap draws into grid cell
\* (k div C, k mod C), after R*C patches cur_pos is (0, 0) again, an
\* add_patch made at cur_pos (0, 0) resets the image before it draws, and an
\* add_patch that raises leaves cur_pos as it was.
C30_GridPositions ==
    (pc = "viewing" /\ self.grid_shape[1] >= 1 /\ self.grid_shape[2] >= 1) =>
        /\ self.cur_pos[1] \in 0..(self.grid_shape[1] - 1)
        /\ self.cur_pos[2] \in 0..(self.grid_shape[2] - 1)
        /\ self.cur_pos = CellOf(Added(Len(history)))
        /\ \A i \in 1..Len(history) :
               LET e == history[i]
                   cell == CellOf(Added(i - 1))
               IN  /\ (e.op = "add_patch" /\ e.status = "ok") =>
                          /\ e.at = cell
                          /\ e.rs = self.pad[1] + cell[1] * (self.patch_shape[1] + self.pad[1])
                          /\ e.cs = self.pad[2] + cell[2] * (self.patch_shape[2] + self.pad[2])
                          /\ e.after = CellOf(Added(i - 1) + 1)
                   /\ (e.op = "add_patch" /\ e.status # "ok") => e.after = e.at
        /\ \A n \in 1..Len(history) :
               (n = Len(history) /\ history[n].op = "add_patch"
                   /\ history[n].status = "ok" /\ history[n].at = <<0, 0>>) =>
                   /\ self.image[1].what = "patch"
                   /\ self.image[1].rows[1] = history[n].rs
                   /\ self.image[1].cols[1] = history[n].cs
                   /\ \A j \in 2..Len(self.image) : self.image[j].what = "shell"

\* a grid of at least two cells was filled and wrapped, and one add_patch
\* raised on the way
C30_Witness ==
    /\ pc = "viewing"
    /\ self.grid_shape[1] * self.grid_shape[2] >= 2
    /\ LastClear(Len(history)) = 0
    /\ Added(Len(history)) > self.grid_shape[1] * self.grid_shape[2]
    /\ \E i \in 1..Len(history) : history[i].status # "ok"

====
